---- MODULE Spec2Model ----
(***************************************************************************)
(* A model of the web2embeddings command-line tools: the chunk vectorizer  *)
(* (src/src/vectorizer.py, started by src/main.py), the JSONL data         *)
(* validator (src/tools/data_validator.py) and the collection manager      *)
(* (src/tools/collection_manager.py), over one persistent vector database. *)
(*                                                                         *)
(* Text is modelled at two levels.  A name (a path, a model name, a        *)
(* collection name) is a sequence of one-character strings.  A line of a   *)
(* JSONL file, and an export file, is a sequence of JSON tokens: the       *)
(* punctuation "{" "}" "[" "]" ":" ",", the whitespace token " ", string   *)
(* literals and number literals.                                           *)
(***************************************************************************)
EXTENDS Integers, Sequences, FiniteSets, TLC

VARIABLES
    \* ---- the outside world
    store,            \* the database: collection name -> sequence of rows
    dbExists,         \* whether the database directory exists on disk
    fileExists,       \* whether the input file exists
    lines,            \* the input file's lines, in file order
    \* ---- one vectorizer process (src/main.py, src/src/vectorizer.py)
    pc,               \* where the process is
    input_file,       \* ChunkVectorizer.input_file
    model_name,       \* the model_name argument
    batch_size,       \* ChunkVectorizer.batch_size
    collection_name,  \* ChunkVectorizer.collection_name
    monitoring,       \* SystemMonitor.monitoring
    chunks,           \* what load_chunks returned
    batch_embeddings, \* process_and_store_chunks: batch_embeddings
    i,                \* the loop variable of the running batch loop
    embedCalls,       \* the model.encode calls issued, in order
    addCalls,         \* the collection.add calls issued, in order, each with
                      \* its ids, embeddings, documents and metadatas
    failedIn,         \* the call that raised, "" when none did
    store0,           \* the database as it was when the process started
    \* ---- one validator process (src/tools/data_validator.py)
    vpc, line_num, stats, errors, warnings, seen_ids, report,
    \* ---- one collection manager process (src/tools/collection_manager.py)
    mpc, mArgs, exportFile, mResult,
    deleteCalls,      \* the client.delete_collection calls of the command
    \* ---- the vectorizer's monitor thread (SystemMonitor._monitor_loop)
    monPc,            \* where the thread is
    monStats,         \* SystemMonitor.stats
    \* ---- one MCP server process (src/mcp_server/chroma_mcp_server_minimal.py)
    spc,              \* where the server is
    sArgs,            \* the command line, and whether CUDA is available
    device,           \* the device the model was loaded on
    uuids,            \* the number of uuid4 tokens generated so far
    sCall,            \* the running tool call and the calls it has made
    sResult,          \* what the last tool call returned
    sInit,            \* the globals __main__ has assigned, in order
    \* ---- one call of DataValidator._extract_pattern
    ppc, patText, pattern,
    \* ---- one call of EmbeddingVisualizer.filter_outliers
    fpc,              \* where the call is
    fIn,              \* its six arguments and self.outlier_threshold
    fOut,             \* the six values it returned
    \* ---- the sample data generator (src/examples/sample_data_generator.py)
    gpc,              \* where the script is
    num_docs,         \* the number of documents asked for
    gValid            \* what validate_jsonl returned

vecVars == <<pc, input_file, model_name, batch_size, collection_name,
             monitoring, chunks, batch_embeddings, i, embedCalls, addCalls,
             failedIn, store0, monPc, monStats>>
valVars == <<vpc, line_num, stats, errors, warnings, seen_ids, report>>
mgrVars == <<mpc, mArgs, exportFile, mResult, deleteCalls>>
monVars == <<monPc, monStats>>
srvVars == <<spc, sArgs, device, uuids, sCall, sResult, sInit>>
patVars == <<ppc, patText, pattern>>
filVars == <<fpc, fIn, fOut>>
genVars == <<gpc, num_docs, gValid>>
toolVars == <<patVars, filVars, genVars>>
worldVars == <<store, dbExists, fileExists, lines>>
vars == <<worldVars, vecVars, valVars, mgrVars, srvVars, toolVars>>

----------------------------------------------------------------------------
(* Bounds of the model.                                                    *)

MaxLines == 3
MaxBatch == 2
MaxParts == 3
MaxValLines == 3
MaxRows == 2
MaxMemories == 2
MaxPatLen == 3
MaxPoints == 3
MaxDocs == 2

----------------------------------------------------------------------------
(* Sequences.                                                              *)

Range(s) == {s[k] : k \in DOMAIN s}

Min(a, b) == IF a < b THEN a ELSE b

\* A mutant of Slice: the end index is taken as inclusive.
SliceInclusive(s, a, b) == SubSeq(s, a + 1, Min(b + 1, Len(s)))

\* Python's s[a:b] for 0 <= a, as a 1-based sequence.
Slice(s, a, b) == SubSeq(s, a + 1, Min(b, Len(s)))

Rep(c, n) == [k \in 1..n |-> c]

SeqsUpTo(S, n) == UNION {[1..k -> S] : k \in 0..n}

RECURSIVE Concat(_)
Concat(ss) == IF ss = <<>> THEN <<>> ELSE Head(ss) \o Concat(Tail(ss))

----------------------------------------------------------------------------
(* JSON text, as json.loads reads it.  A parsed value is a record          *)
(* [t |-> "str" | "num" | "arr" | "obj", v |-> ...]; the v of an object is *)
(* the function from its keys to its members' values.                      *)

Punct == {"{", "}", "[", "]", ":", ","}
WS == " "

\* The keys and ids that occur in the files of the model.  LongText stands
\* for a string longer than the validator's upper text length.
Keys == {"id", "text", "source"}
Ids == {"doc_1", "doc_2", "doc_3", "doc 4!", "doc_5", "doc_6", "doc_7", "doc_8",
        "doc_9", "doc_10"}
LongText == "LONG"
\* The number literals: the number of the files, the coordinates of the
\* vectors and the counts a dump writes.
NumLits ==
    {"7"} \cup {"0.0", "0.1", "0.2", "0.3", "0.4", "0.5", "0.6", "0.7"}
          \cup {ToString(n) : n \in 0..16}
\* Every other token that is neither punctuation nor whitespace is a
\* string literal.
IsStrLit(tok) == tok \notin (Punct \cup {WS} \cup NumLits)

StrV(s) == [t |-> "str", v |-> s]
NumV(n) == [t |-> "num", v |-> n]
ArrV(a) == [t |-> "arr", v |-> a]
ObjV(f) == [t |-> "obj", v |-> f]

\* str.strip() leaves nothing: the line holds whitespace only.
IsBlank(line) == \A k \in DOMAIN line : line[k] = WS

\* Whitespace between JSON tokens carries no meaning.
Lex(line) == SelectSeq(line, LAMBDA tok : tok # WS)

ParseFail == [ok |-> FALSE, val |-> NumV(""), rest |-> <<>>]
ParseOk(v, rest) == [ok |-> TRUE, val |-> v, rest |-> rest]

RECURSIVE ParseValue(_), ParseItems(_, _), ParseMembers(_, _)
\* One JSON value at the head of toks, and the tokens after it.
ParseValue(toks) ==
    IF toks = <<>> THEN ParseFail
    ELSE IF IsStrLit(toks[1]) THEN ParseOk(StrV(toks[1]), Tail(toks))
    ELSE IF toks[1] \in NumLits THEN ParseOk(NumV(toks[1]), Tail(toks))
    ELSE IF toks[1] = "["
    THEN (IF Len(toks) >= 2 /\ toks[2] = "]"
          THEN ParseOk(ArrV(<<>>), SubSeq(toks, 3, Len(toks)))
          ELSE ParseItems(Tail(toks), <<>>))
    ELSE IF toks[1] = "{"
    THEN (IF Len(toks) >= 2 /\ toks[2] = "}"
          THEN ParseOk(ObjV(<<>>), SubSeq(toks, 3, Len(toks)))
          ELSE ParseMembers(Tail(toks), <<>>))
    ELSE ParseFail

\* value ("," value)* "]"
ParseItems(toks, acc) ==
    LET r == ParseValue(toks)
    IN  IF ~r.ok \/ r.rest = <<>> THEN ParseFail
        ELSE IF r.rest[1] = "]" THEN ParseOk(ArrV(Append(acc, r.val)), Tail(r.rest))
        ELSE IF r.rest[1] = "," THEN ParseItems(Tail(r.rest), Append(acc, r.val))
        ELSE ParseFail

\* key ":" value ("," key ":" value)* "}", a later member replacing an
\* earlier one of the same key.
ParseMembers(toks, acc) ==
    IF Len(toks) < 2 \/ ~IsStrLit(toks[1]) \/ toks[2] # ":" THEN ParseFail
    ELSE LET r == ParseValue(SubSeq(toks, 3, Len(toks)))
             acc2 == (toks[1] :> r.val) @@ acc
         IN  IF ~r.ok \/ r.rest = <<>> THEN ParseFail
             ELSE IF r.rest[1] = "}" THEN ParseOk(ObjV(acc2), Tail(r.rest))
             ELSE IF r.rest[1] = "," THEN ParseMembers(Tail(r.rest), acc2)
             ELSE ParseFail

\* json.loads(line): [ok |-> FALSE] stands for json.JSONDecodeError.
JsonLoads(line) ==
    LET r == ParseValue(Lex(line))
    IN  IF r.ok /\ r.rest = <<>> THEN r ELSE ParseFail

\* The line json.dumps writes for a record of the three fields.
RecLine(id, text, source) ==
    <<"{", "id", ":", WS, id, ",", WS, "text", ":", WS, text, ",", WS,
      "source", ":", WS, source, "}">>

IsObj(v) == v.t = "obj"
IsStr(v) == v.t = "str"
\* len(x) is defined: x is a string or an array.
IsSized(v) == v.t \in {"str", "arr"}
Has(v, key) == key \in DOMAIN v.v

\* len(x) for a string x.
StrLen(s) == IF s = LongText THEN 16385 ELSE Len(s)

\* len(x) for a parsed value x that has a length.
ValueLen(v) == IF IsStr(v) THEN StrLen(v.v) ELSE Len(v.v)

\* not x.strip(), for a string x
IsBlankStr(s) == s \in {"", "  "}

\* re.match(r'^[a-zA-Z0-9_-]+$', x), for the literals of the model
IsWord(s) == s \in (Keys \cup (Ids \ {"doc 4!"}) \cup {"short", LongText})

\* key in x, for a string x: whether key occurs in x
OccursIn(key, s) ==
    \/ s = key
    \/ key = "text" /\ s \in {"first text chunk", "second text chunk",
                               "third text chunk"}

----------------------------------------------------------------------------
(* Names, and the collection name _setup_collection derives.               *)

DotJsonl == <<".", "j", "s", "o", "n", "l">>
Slash == "/"

\* The database's limit on the length of a collection name.
MaxNameLen == 63

\* The places where old occurs in s.
Occurrences(s, old) ==
    {k \in 1..(Len(s) - Len(old) + 1) : SubSeq(s, k, k + Len(old) - 1) = old}

RECURSIVE RemoveAll(_, _)
\* str.replace(old, ''): every occurrence of old, scanning from the left.
RemoveAll(s, old) ==
    IF Occurrences(s, old) = {} THEN s
    ELSE LET first == CHOOSE k \in Occurrences(s, old) :
                          \A j \in Occurrences(s, old) : k <= j
         IN  SubSeq(s, 1, first - 1)
                 \o RemoveAll(SubSeq(s, first + Len(old), Len(s)), old)

\* The part of s after its last "/", s itself when it holds none.
AfterLastSlash(s) ==
    LET slashes == {k \in DOMAIN s : s[k] = Slash}
    IN  IF slashes = {} THEN s
        ELSE SubSeq(s, (CHOOSE k \in slashes : \A j \in slashes : j <= k) + 1, Len(s))

\* os.path.basename(path)
Basename(path) == AfterLastSlash(path)

\* model_name.split('/')[-1] if '/' in model_name else model_name
ModelShortName(model) ==
    IF \E k \in DOMAIN model : model[k] = Slash THEN AfterLastSlash(model)
    ELSE model

\* collection_name[:63] when it is longer than 63 characters
Truncate(name) ==
    IF Len(name) > MaxNameLen THEN SubSeq(name, 1, MaxNameLen) ELSE name

CollectionBaseName(path) == RemoveAll(Basename(path), DotJsonl)

CollectionName(path, model) ==
    Truncate(CollectionBaseName(path) \o <<"_">> \o ModelShortName(model))

----------------------------------------------------------------------------
(* The vector database (chromadb), as far as the tools use it.  A          *)
(* collection is the sequence of its rows in insertion order; a row is     *)
(* [id, embedding, document, metadata].                                    *)

Exists(db, name) == name \in DOMAIN db

\* A mutant of DeleteCollection: every collection is dropped.
DeleteEveryCollection(db, name) == <<>>

\* client.delete_collection(name) on an existing collection
DeleteCollection(db, name) == [n \in (DOMAIN db) \ {name} |-> db[n]]

\* client.create_collection(name) on a name that is free
CreateCollection(db, name) == (name :> <<>>) @@ db

\* A mutant of GetOrCreateCollection: a missing collection is not created.
GetWithoutCreating(db, name) == db

\* client.get_or_create_collection(name)
GetOrCreateCollection(db, name) ==
    IF Exists(db, name) THEN db ELSE CreateCollection(db, name)

RowIds(rows) == [k \in DOMAIN rows |-> rows[k].id]
IdSet(rows) == {rows[k].id : k \in DOMAIN rows}

NoDuplicates(s) == \A a, b \in DOMAIN s : s[a] = s[b] => a = b

\* collection.add validates the batch before it writes: every id is a
\* string and no id occurs twice in the batch.
AddAccepts(batch) ==
    /\ \A k \in DOMAIN batch : IsStr(batch[k].id)
    /\ NoDuplicates(RowIds(batch))

RECURSIVE AddRows(_, _)
\* collection.add of an accepted batch: a row whose id the collection
\* already holds is skipped, the others are appended in order.
AddRows(rows, batch) ==
    IF batch = <<>> THEN rows
    ELSE AddRows(IF Head(batch).id \in IdSet(rows) THEN rows
                 ELSE Append(rows, Head(batch)),
                 Tail(batch))

\* collection.get(limit=limit, include=[...]); limit = -1 stands for None.
GetRows(rows, limit) ==
    IF limit < 0 THEN rows ELSE SubSeq(rows, 1, Min(limit, Len(rows)))

----------------------------------------------------------------------------
(* The vectorizer: src/main.py and ChunkVectorizer.                        *)

\* The inputs of the model's runs.  Two paths with one base name, one
\* model, and files of at most MaxLines lines of these kinds.
FileA == <<"a">> \o DotJsonl
VecFiles == {FileA, <<"d", Slash, "a">> \o DotJsonl}
BlankLine == <<WS>>
Rec1 == RecLine("doc_1", "first text chunk", "a.txt")
Rec2 == RecLine("doc_2", "second text chunk", "a.txt")
Rec3 == RecLine("doc_3", "third text chunk", "b/c.txt")
CutLine == <<"{", "id", ":">>
NumberLine == <<"7">>
NoIdLine == <<"{", "text", ":", WS, "short", "}">>
VecLines == {BlankLine, Rec1, Rec2, Rec3, CutLine, NumberLine, NoIdLine}

\* A mutant of NonBlank: blank lines are not skipped.
NonBlankKeepsAll(ls) == ls

\* load_chunks: the lines json.loads is called on, in file order.
NonBlank(ls) == SelectSeq(ls, LAMBDA l : ~IsBlank(l))

\* A mutant of AllParse: only the first non-blank line is looked at.
FirstParses(ls) == NonBlank(ls) = <<>> \/ JsonLoads(NonBlank(ls)[1]).ok

\* Whether json.loads accepts every non-blank line.
AllParse(ls) == \A k \in DOMAIN NonBlank(ls) : JsonLoads(NonBlank(ls)[k]).ok

\* The list load_chunks builds when every line parses.
LoadedChunks(ls) == [k \in DOMAIN NonBlank(ls) |-> JsonLoads(NonBlank(ls)[k]).val]

\* load_chunks' statistics: chunk.get('text', '') needs a dict, len() a string.
StatsOk(cs) ==
    \A k \in DOMAIN cs :
        /\ IsObj(cs[k])
        /\ Has(cs[k], "text") => IsSized(cs[k].v["text"])

\* chunk['id'], chunk['text'] and chunk['source'] raise KeyError when absent.
HasAllKeys(cs) == \A k \in DOMAIN cs : \A key \in Keys : Has(cs[k], key)
ChunkIds(cs) == [k \in DOMAIN cs |-> cs[k].v["id"]]
ChunkTexts(cs) == [k \in DOMAIN cs |-> cs[k].v["text"]]
ChunkMetadatas(cs) == [k \in DOMAIN cs |-> [source |-> cs[k].v["source"]]]

\* total_batches = (len(chunks) + batch_size - 1) // batch_size
TotalBatches(n, b) == (n + b - 1) \div b

\* A mutant of NextIndex: the loop steps one too far.
NextIndexSkipping(k, b) == k + b + 1

\* The next value of range(0, n, b) after k.
NextIndex(k, b) == k + b

\* The vector the model returns for a text: a list of floats, here of one
\* coordinate, different texts of the model's files getting different vectors.
Coordinate(text) ==
    CASE text = StrV("first text chunk") -> "0.1"
      [] text = StrV("second text chunk") -> "0.2"
      [] text = StrV("third text chunk") -> "0.3"
      [] text = StrV("short") -> "0.4"
      [] text = StrV("") -> "0.5"
      [] text = StrV("  ") -> "0.6"
      [] text = StrV(LongText) -> "0.7"
      [] OTHER -> "0.0"
Vec(text) == ArrV(<<NumV(Coordinate(text))>>)

\* A mutant of Encode: the vectors come back in the opposite order.
EncodeReversed(batch_texts) ==
    [k \in DOMAIN batch_texts |-> Vec(batch_texts[Len(batch_texts) + 1 - k])]

\* model.encode(batch_texts): one vector per text, in order.
Encode(batch_texts) == [k \in DOMAIN batch_texts |-> Vec(batch_texts[k])]

\* The rows one add call hands over: position k of each of the four lists.
BatchRows(ids, embs, docs, metas) ==
    [k \in DOMAIN ids |->
        [id |-> ids[k], embedding |-> embs[k], document |-> docs[k],
         metadata |-> metas[k]]]

\* A mutant of RecreateCollection: an existing collection is reused as it is.
ReuseCollection(db, name) ==
    IF Exists(db, name) THEN db ELSE CreateCollection(db, name)

\* _setup_collection: delete the collection if it exists, create it anew.
RecreateCollection(db, name) ==
    CreateCollection(IF Exists(db, name) THEN DeleteCollection(db, name) ELSE db,
                     name)

ValOff ==
    /\ vpc = "off" /\ line_num = 0 /\ stats = <<>> /\ errors = <<>>
    /\ warnings = <<>> /\ seen_ids = {} /\ report = <<>>

MonOff == monPc = "off" /\ monStats = 0

SrvOff ==
    /\ spc = "off" /\ sArgs = <<>> /\ device = "" /\ uuids = 0
    /\ sCall = <<>> /\ sResult = <<>> /\ sInit = <<>>

\* The small tools, each not running unless it is the one named.
ToolsOff(running) ==
    /\ running # "pattern" => (ppc = "off" /\ patText = <<>> /\ pattern = <<>>)
    /\ running # "filter" => (fpc = "off" /\ fIn = <<>> /\ fOut = <<>>)
    /\ running # "generator" => (gpc = "off" /\ num_docs = 0 /\ gValid = "")

MgrOff ==
    /\ mpc = "off" /\ mArgs = <<>> /\ exportFile = <<>> /\ mResult = ""
    /\ deleteCalls = <<>>

Init ==
    /\ store = <<>> /\ dbExists = FALSE /\ fileExists = FALSE /\ lines = <<>>
    /\ pc = "idle" /\ input_file = <<>> /\ model_name = <<>> /\ batch_size = 1
    /\ collection_name = <<>> /\ monitoring = FALSE /\ chunks = <<>>
    /\ batch_embeddings = <<>> /\ i = 0 /\ embedCalls = <<>> /\ addCalls = <<>>
    /\ failedIn = "" /\ store0 = <<>>
    /\ MonOff /\ SrvOff /\ ToolsOff("")
    /\ ValOff /\ MgrOff

Stopped == pc \in {"no_config", "done", "raised"}

\* main() of src/main.py is started on a configuration file; the input file
\* is whatever is on disk at that moment.
MainOn(files, kinds) ==
    /\ pc = "idle"
    /\ \E cfg \in BOOLEAN, f \in files, m \in {<<"o", Slash, "m">>}, b \in 1..MaxBatch,
          ex \in BOOLEAN, ls \in SeqsUpTo(kinds, MaxLines) :
        /\ ex \/ ls = <<>>
        /\ cfg \/ (f = FileA /\ b = 1 /\ ~ex)
        /\ fileExists' = ex /\ lines' = ls
        /\ input_file' = f /\ model_name' = m /\ batch_size' = b
        /\ pc' = IF cfg THEN "init" ELSE "no_config"
    /\ store0' = store
    /\ UNCHANGED <<store, dbExists, collection_name, monitoring, chunks,
                   batch_embeddings, i, embedCalls, addCalls, failedIn,
                   valVars, mgrVars, srvVars, toolVars, monVars>>

\* A mutant of Raise: the failed call is noted and the step is tried again.
Retry(what) == pc' = pc /\ failedIn' = what

\* An exception leaves run() through its handler, which re-raises it.
Raise(what) == pc' = "raised" /\ failedIn' = what

Main == MainOn(VecFiles, VecLines)

\* ChunkVectorizer.__init__ up to and including _setup_collection.
SetupCollection ==
    /\ pc = "init"
    /\ monitoring' = TRUE /\ monPc' = "check"
    /\ collection_name' = CollectionName(input_file, model_name)
    /\ dbExists' = TRUE
    /\ \/ /\ store' = RecreateCollection(store, collection_name')
          /\ pc' = "load_model" /\ UNCHANGED failedIn
       \/ \* create_collection raises after the delete went through
          /\ store' = IF Exists(store, collection_name')
                      THEN DeleteCollection(store, collection_name') ELSE store
          /\ Raise("setup")
    /\ UNCHANGED <<fileExists, lines, input_file, model_name, batch_size, chunks,
                   batch_embeddings, i, embedCalls, addCalls, store0,
                   valVars, mgrVars, srvVars, toolVars, monStats>>

\* ChunkVectorizer.__init__: _load_model.
LoadModel ==
    /\ pc = "load_model"
    /\ \/ pc' = "ready" /\ UNCHANGED failedIn
       \/ Raise("model")
    /\ UNCHANGED <<worldVars, input_file, model_name, batch_size, collection_name,
                   monitoring, chunks, batch_embeddings, i, embedCalls, addCalls,
                   store0, valVars, mgrVars, srvVars, toolVars, monVars>>

\* run(): load_chunks, and the exception handler around it.
LoadChunks ==
    /\ pc = "ready"
    /\ IF ~fileExists
       THEN Raise("open") /\ monitoring' = FALSE /\ UNCHANGED chunks
       ELSE IF ~AllParse(lines)
       THEN Raise("json") /\ monitoring' = FALSE /\ UNCHANGED chunks
       ELSE IF ~StatsOk(LoadedChunks(lines))
       THEN Raise("stats") /\ monitoring' = FALSE /\ UNCHANGED chunks
       ELSE /\ chunks' = LoadedChunks(lines)
            /\ pc' = "loaded"
            /\ UNCHANGED <<failedIn, monitoring>>
    /\ UNCHANGED <<worldVars, input_file, model_name, batch_size, collection_name,
                   batch_embeddings, i, embedCalls, addCalls, store0,
                   valVars, mgrVars, srvVars, toolVars, monVars>>

\* run(): nothing to process; or process_and_store_chunks up to its first loop.
ProcessStart ==
    /\ pc = "loaded"
    /\ IF chunks = <<>>
       THEN pc' = "done" /\ monitoring' = FALSE /\ UNCHANGED failedIn
       ELSE IF ~HasAllKeys(chunks)
       THEN Raise("prepare") /\ monitoring' = FALSE
       ELSE pc' = "embed" /\ UNCHANGED <<failedIn, monitoring>>
    /\ i' = 0
    /\ UNCHANGED <<worldVars, input_file, model_name, batch_size, collection_name,
                   chunks, batch_embeddings, embedCalls, addCalls, store0,
                   valVars, mgrVars, srvVars, toolVars, monVars>>

\* One pass of the embedding loop.
EmbedBatch ==
    /\ pc = "embed"
    /\ LET batch_texts == Slice(ChunkTexts(chunks), i, i + batch_size)
       IN  /\ embedCalls' = Append(embedCalls, batch_texts)
           /\ \/ /\ batch_embeddings' = batch_embeddings \o Encode(batch_texts)
                 /\ IF NextIndex(i, batch_size) < Len(chunks)
                    THEN pc' = "embed" /\ i' = NextIndex(i, batch_size)
                    ELSE pc' = "store" /\ i' = 0
                 /\ UNCHANGED <<failedIn, monitoring>>
              \/ \* the tokenizer or model.encode raises
                 /\ Raise("encode") /\ monitoring' = FALSE
                 /\ UNCHANGED <<batch_embeddings, i>>
    /\ UNCHANGED <<worldVars, input_file, model_name, batch_size, collection_name,
                   chunks, addCalls, store0, valVars, mgrVars, srvVars, toolVars, monVars>>

\* One pass of the storage loop.
StoreBatch ==
    /\ pc = "store"
    /\ LET batch_ids == Slice(ChunkIds(chunks), i, i + batch_size)
           batch_emb == Slice(batch_embeddings, i, i + batch_size)
           batch_docs == Slice(ChunkTexts(chunks), i, i + batch_size)
           batch_meta == Slice(ChunkMetadatas(chunks), i, i + batch_size)
           batch == BatchRows(batch_ids, batch_emb, batch_docs, batch_meta)
       IN  /\ addCalls' = Append(addCalls,
                                  [ids |-> batch_ids, embeddings |-> batch_emb,
                                   documents |-> batch_docs, metadatas |-> batch_meta])
           /\ \/ /\ AddAccepts(batch)
                 /\ store' = [store EXCEPT ![collection_name] = AddRows(@, batch)]
                 /\ IF NextIndex(i, batch_size) < Len(chunks)
                    THEN pc' = "store" /\ i' = NextIndex(i, batch_size)
                         /\ UNCHANGED monitoring
                    ELSE pc' = "done" /\ i' = i /\ monitoring' = FALSE
                 /\ UNCHANGED failedIn
              \/ \* collection.add raises
                 /\ Raise("add") /\ monitoring' = FALSE
                 /\ UNCHANGED <<store, i>>
    /\ UNCHANGED <<dbExists, fileExists, lines, input_file, model_name, batch_size,
                   collection_name, chunks, batch_embeddings, embedCalls, store0,
                   valVars, mgrVars, srvVars, toolVars, monVars>>

\* The process ends; the database and its directory stay.
Exit ==
    /\ Stopped
    /\ pc' = "idle" /\ fileExists' = FALSE /\ lines' = <<>>
    /\ input_file' = <<>> /\ model_name' = <<>> /\ batch_size' = 1
    /\ collection_name' = <<>> /\ monitoring' = FALSE /\ chunks' = <<>>
    /\ batch_embeddings' = <<>> /\ i' = 0 /\ embedCalls' = <<>>
    /\ addCalls' = <<>> /\ failedIn' = "" /\ store0' = <<>>
    /\ monPc' = "off" /\ monStats' = 0
    /\ UNCHANGED <<store, dbExists, valVars, mgrVars, srvVars, toolVars>>

Next ==
    \/ Main
    \/ SetupCollection
    \/ LoadModel
    \/ LoadChunks
    \/ ProcessStart
    \/ EmbedBatch
    \/ StoreBatch
    \/ Exit

Spec == Init /\ [][Next]_vars

----------------------------------------------------------------------------
(* The vectorizer with its monitor thread.  SystemMonitor._monitor_loop    *)
(* runs beside the main thread from start_monitoring on: it reads the      *)
(* monitoring flag, polls the counters and writes them to SystemMonitor's  *)
(* stats.  A poll is a number; 0 stands for the stats of __init__.         *)

Polls == {1, 2}

\* A mutant of AfterPoll: the poll also rewinds the batch cursor.
AfterPollRewinds(obj, poll) == [obj EXCEPT !.stats = poll, !.i = 0]

\* What one pass of the loop's body does to the objects of the process.
AfterPoll(obj, poll) == [obj EXCEPT !.stats = poll]

\* A mutant of LoopTest: the flag is not read.
LoopTestBlind(flag) == "poll"

\* while self.monitoring: where the thread goes on the flag it reads
LoopTest(flag) == IF flag THEN "poll" ELSE "off"

\* The loop test of _monitor_loop.
MonitorCheck ==
    /\ monPc = "check"
    /\ monPc' = LoopTest(monitoring)
    /\ UNCHANGED <<worldVars, pc, input_file, model_name, batch_size,
                   collection_name, monitoring, chunks, batch_embeddings, i,
                   embedCalls, addCalls, failedIn, store0, monStats,
                   valVars, mgrVars, srvVars, toolVars>>

\* The body of the loop: the polls and the writes to self.stats, or an
\* exception that is passed over; then time.sleep(2).
MonitorPoll ==
    /\ monPc = "poll"
    /\ monPc' = "check"
    /\ \E poll \in Polls \cup {monStats} :
          LET after == AfterPoll([stats |-> monStats, chunks |-> chunks,
                                  batch_embeddings |-> batch_embeddings, i |-> i,
                                  store |-> store], poll)
          IN  /\ monStats' = after.stats /\ chunks' = after.chunks
              /\ batch_embeddings' = after.batch_embeddings /\ i' = after.i
              /\ store' = after.store
    /\ UNCHANGED <<dbExists, fileExists, lines, pc, input_file, model_name,
                   batch_size, collection_name, monitoring, embedCalls, addCalls,
                   failedIn, store0, valVars, mgrVars, srvVars, toolVars>>

\* Runs on one path over files of records and cut lines.
MonMain == MainOn({FileA}, {Rec1, Rec2, Rec3, CutLine})

MonNext ==
    \/ MonMain
    \/ SetupCollection
    \/ LoadModel
    \/ LoadChunks
    \/ ProcessStart
    \/ EmbedBatch
    \/ StoreBatch
    \/ Exit
    \/ MonitorCheck
    \/ MonitorPoll

MonSpec == Init /\ [][MonNext]_vars

\* The monitor thread is a started thread of a running process: the scheduler
\* lets it take its next step, and time.sleep(2) returns.
MonFairSpec == MonSpec /\ WF_vars(MonitorCheck) /\ WF_vars(MonitorPoll)

----------------------------------------------------------------------------
(* Properties of the vectorizer.                                           *)

Ran == pc \in {"loaded", "embed", "store", "done"} \/
       (pc = "raised" /\ failedIn \in {"prepare", "encode", "add"})

\* The row the vectorizer is meant to store for a chunk.
RowOf(c) ==
    [id |-> c.v["id"], embedding |-> Vec(c.v["text"]), document |-> c.v["text"],
     metadata |-> [source |-> c.v["source"]]]

\* One row per id of cs, that of the id's first chunk, in the chunks' order.
ExpectedRows(cs) ==
    LET first == {k \in DOMAIN cs : \A j \in 1..(k - 1) : cs[j].v["id"] # cs[k].v["id"]}
        nth(m) == CHOOSE k \in first : Cardinality({j \in first : j < k}) = m - 1
    IN  [m \in 1..Cardinality(first) |-> RowOf(cs[nth(m)])]

\* The ids argument of each add call.
AddedIds == [k \in DOMAIN addCalls |-> addCalls[k].ids]

\* The least q with q * b >= n.
CeilDiv(n, b) == CHOOSE q \in 0..n : q * b >= n /\ (q - 1) * b < n

\* C1: a run that completes leaves in its collection exactly the rows of its
\* own input, whatever an earlier run stored under that name; the collection
\* is empty from _setup_collection until the run's first add call.
C1_RerunLeavesLatestRows ==
    /\ pc \in {"load_model", "ready", "loaded", "embed"}
          => store[collection_name] = <<>>
    /\ (pc = "store" /\ addCalls = <<>>) => store[collection_name] = <<>>
    /\ pc = "done" =>
          /\ store[collection_name] = ExpectedRows(chunks)
          /\ IdSet(store[collection_name]) = Range(ChunkIds(chunks))

\* C1 witness: a completed run over a name that held a row the run's input
\* does not have.
C1_Witness ==
    /\ pc = "done" /\ chunks # <<>>
    /\ Exists(store0, collection_name)
    /\ IdSet(store0[collection_name]) \ Range(ChunkIds(chunks)) # {}

\* C2: the embedding loop and the storage loop each form ceil(N/B)
\* consecutive batches, as many as total_batches; every batch but the last
\* has B elements, the last N mod B (B when that is 0), and the batches in
\* order make up the input.
C2_BatchPartition ==
    LET n == Len(chunks)
        b == batch_size
        q == CeilDiv(n, b)
        last == IF n % b = 0 THEN b ELSE n % b
        Shaped(calls) ==
            /\ Len(calls) = q
            /\ \A k \in 1..(q - 1) : Len(calls[k]) = b
            /\ Len(calls[q]) = last
    IN  /\ (pc \in {"store", "done"} /\ chunks # <<>>) =>
              /\ Shaped(embedCalls)
              /\ Concat(embedCalls) = ChunkTexts(chunks)
              /\ TotalBatches(n, b) = q
        /\ (pc = "done" /\ chunks # <<>>) =>
              /\ Shaped(AddedIds)
              /\ Concat(AddedIds) = ChunkIds(chunks)

\* C2 witness: a completed run of several batches with a shorter last batch.
C2_Witness ==
    /\ pc = "done" /\ Len(chunks) = 3 /\ batch_size = 2
    /\ Len(addCalls) = 2 /\ Len(addCalls[2].ids) = 1

\* C3: when every non-blank line is valid JSON, load_chunks returns the
\* parses of the non-blank lines, one per line, in file order.
C3_LoadReturnsEveryLine ==
    (pc \in {"loaded", "embed", "store", "done", "raised"}
        /\ failedIn \notin {"setup", "model"}
        /\ fileExists
        /\ \A k \in DOMAIN lines : IsBlank(lines[k]) \/ JsonLoads(lines[k]).ok)
    => /\ failedIn \notin {"open", "json", "stats"}
       /\ Len(chunks) = Cardinality({k \in DOMAIN lines : ~IsBlank(lines[k])})
       /\ \A k \in DOMAIN chunks : chunks[k] = JsonLoads(NonBlank(lines)[k]).val

\* C9: a vectorizer started without its configuration file or on an input
\* file that does not exist deletes no collection and creates none.
C9_MissingInputLeavesStore ==
    (pc = "no_config" \/ (pc # "idle" /\ ~fileExists)) => store = store0

\* C10: when the k-th add call raises, run() ends with the exception and the
\* collection holds the rows of the first (k-1)*B chunks, in order, and no
\* others.
C10_FailedAddLeavesPrefix ==
    (pc = "raised" /\ failedIn = "add") =>
        LET k == Len(addCalls)
            done == SubSeq(chunks, 1, (k - 1) * batch_size)
        IN  /\ (k - 1) * batch_size < Len(chunks)
            /\ ~monitoring
            /\ store[collection_name] = ExpectedRows(done)
            /\ NoDuplicates(ChunkIds(done)) =>
                  RowIds(store[collection_name]) = ChunkIds(done)

\* C10 witness: the add call of a later batch raised after earlier batches
\* were stored.
C10_Witness ==
    /\ pc = "raised" /\ failedIn = "add" /\ Len(addCalls) = 3
    /\ Len(store[collection_name]) = 2

\* C12: a run is one pass in a fixed order.  No model call is made before
\* load_chunks has returned; the k-th encode call and the k-th add call are
\* those of batch k, so each batch is handled once and in increasing order;
\* every encode call precedes the first add call; a step issues at most one
\* call; and once a call has raised, no encode or add call follows.
C12_SinglePassNoRetry ==
    /\ [](LET texts == ChunkTexts(chunks)
              ids == ChunkIds(chunks)
              b == batch_size
          IN  /\ (embedCalls # <<>> \/ addCalls # <<>>) =>
                    chunks # <<>> /\ chunks = LoadedChunks(lines)
              /\ \A k \in DOMAIN embedCalls :
                    /\ (k - 1) * b < Len(chunks)
                    /\ embedCalls[k] = Slice(texts, (k - 1) * b, k * b)
              /\ \A k \in DOMAIN addCalls :
                    /\ (k - 1) * b < Len(chunks)
                    /\ addCalls[k].ids = Slice(ids, (k - 1) * b, k * b)
              /\ addCalls # <<>> => Concat(embedCalls) = texts
              /\ failedIn # "" => pc = "raised")
    /\ [][/\ Len(embedCalls') + Len(addCalls') <= Len(embedCalls) + Len(addCalls) + 1
          /\ failedIn # "" =>
                /\ Len(embedCalls') <= Len(embedCalls)
                /\ Len(addCalls') <= Len(addCalls)]_vars

\* C12 witness: the encode call of the second batch raised; nothing was
\* stored.
C12_Witness ==
    /\ pc = "raised" /\ failedIn = "encode"
    /\ Len(embedCalls) = 2 /\ addCalls = <<>> /\ Len(chunks) >= 2

\* C13: the four lists of every add call have one length, and position j of
\* the k-th call holds the id, the vector of the text, the text and the
\* source of chunk (k-1)*B+j; a run that completes over chunks with distinct
\* ids leaves one row per chunk, in the chunks' order.
C13_AddCallsAligned ==
    /\ \A k \in DOMAIN addCalls :
          LET call == addCalls[k]
          IN  /\ Len(call.ids) >= 1
              /\ Len(call.embeddings) = Len(call.ids)
              /\ Len(call.documents) = Len(call.ids)
              /\ Len(call.metadatas) = Len(call.ids)
              /\ \A j \in DOMAIN call.ids :
                    LET chunk == chunks[(k - 1) * batch_size + j]
                    IN  /\ call.ids[j] = chunk.v["id"]
                        /\ call.embeddings[j] = Vec(chunk.v["text"])
                        /\ call.documents[j] = chunk.v["text"]
                        /\ call.metadatas[j] = [source |-> chunk.v["source"]]
    /\ (pc = "done" /\ NoDuplicates(ChunkIds(chunks))) =>
          /\ Len(store[collection_name]) = Len(chunks)
          /\ \A n \in DOMAIN chunks : store[collection_name][n] = RowOf(chunks[n])

\* C13 witness: a completed run of two batches over three chunks with
\* distinct ids and texts.
C13_Witness ==
    /\ pc = "done" /\ batch_size = 2 /\ Len(chunks) = 3
    /\ NoDuplicates(ChunkIds(chunks)) /\ NoDuplicates(ChunkTexts(chunks))
    /\ Len(addCalls) = 2 /\ Len(store[collection_name]) = 3

\* C14: a step of the monitor thread changes nothing but the thread's own
\* position and the monitor's stats, and a run that completes leaves the
\* rows of its chunks however the two threads were interleaved.
C14_MonitorLeavesRunAlone ==
    /\ [][(monPc \in {"check", "poll"} /\ monPc' \in {"check", "poll", "off"}
             /\ monPc' # monPc /\ pc' = pc)
          => UNCHANGED <<worldVars, pc, input_file, model_name, batch_size,
                         collection_name, monitoring, chunks, batch_embeddings, i,
                         embedCalls, addCalls, failedIn, store0>>]_vars
    /\ [](pc = "done" => store[collection_name] = ExpectedRows(chunks))

\* C14 witness: a run of two batches has completed while the monitor wrote
\* its stats, and the thread has not yet seen the flag go down.
C14_Witness ==
    /\ pc = "done" /\ Len(addCalls) = 2 /\ monStats = 2 /\ monPc = "poll"
    /\ Len(store[collection_name]) = 2

\* The input file holds a non-blank line that json.loads rejects.
HasBadLine == \E k \in DOMAIN lines : ~IsBlank(lines[k]) /\ ~JsonLoads(lines[k]).ok

\* C11: when a non-blank line of the input file is not valid JSON, load_chunks
\* raises the decoding error and run() ends with it: the run gets no further
\* than load_chunks, calls neither model.encode nor collection.add and leaves
\* its collection without rows.
C11_BadLineAbortsRun ==
    (HasBadLine /\ pc \notin {"idle", "no_config", "init", "load_model", "ready"}
                /\ failedIn \notin {"setup", "model"}) =>
        /\ pc = "raised" /\ failedIn = "json"
        /\ ~monitoring
        /\ chunks = <<>> /\ embedCalls = <<>> /\ addCalls = <<>>
        /\ store[collection_name] = <<>>

\* C11 witness: the run was aborted by a bad line that follows a well-formed
\* record.
C11_Witness ==
    /\ pc = "raised" /\ failedIn = "json"
    /\ Len(lines) >= 2 /\ lines[1] = Rec1 /\ ~JsonLoads(lines[2]).ok
    /\ store[collection_name] = <<>>

\* C23: in process_and_store_chunks every model.encode call of the run
\* happens before the first collection.add call: once an add call is made the
\* texts of all chunks have been encoded and no encode call follows; when an
\* encode call fails no add call has been made and none follows, and the
\* collection of the run exists and is empty, whatever it held before.
C23_EncodeBeforeAnyAdd ==
    /\ [](/\ addCalls # <<>> =>
                /\ Concat(embedCalls) = ChunkTexts(chunks)
                /\ Len(embedCalls) = TotalBatches(Len(chunks), batch_size)
          /\ failedIn = "encode" =>
                /\ pc = "raised" /\ addCalls = <<>> /\ embedCalls # <<>>
                /\ Exists(store, collection_name)
                /\ store[collection_name] = <<>>)
    /\ [][(addCalls # <<>> /\ pc' # "idle") => embedCalls' = embedCalls]_vars

\* C23 witness: the collection held a row of an earlier run; the encode call
\* of the second batch failed, and the collection is empty.
C23_Witness ==
    /\ pc = "raised" /\ failedIn = "encode" /\ Len(embedCalls) = 2
    /\ Exists(store0, collection_name) /\ store0[collection_name] # <<>>
    /\ store[collection_name] = <<>>

\* C24: when the input file has no non-blank line, run() makes no encode call
\* and no add call and returns normally: past __init__ the run neither raises
\* nor stores, and at its end the collection exists and is empty and
\* monitoring is off, whatever the collection held before.
C24_EmptyInputLeavesEmptyCollection ==
    (/\ fileExists /\ \A k \in DOMAIN lines : IsBlank(lines[k])
     /\ pc \in {"loaded", "embed", "store", "done", "raised"}
     /\ failedIn \notin {"setup", "model"}) =>
        /\ pc \in {"loaded", "done"} /\ failedIn = ""
        /\ chunks = <<>> /\ embedCalls = <<>> /\ addCalls = <<>>
        /\ Exists(store, collection_name) /\ store[collection_name] = <<>>
        /\ pc = "done" => ~monitoring

\* C24 witness: a file of two blank lines was run over a collection that
\* held a row; the run is done and the collection is empty.
C24_Witness ==
    /\ pc = "done" /\ fileExists /\ Len(lines) = 2
    /\ \A k \in DOMAIN lines : IsBlank(lines[k])
    /\ Exists(store0, collection_name) /\ store0[collection_name] # <<>>
    /\ store[collection_name] = <<>> /\ embedCalls = <<>> /\ addCalls = <<>>

\* C25: monitoring started by the ChunkVectorizer is always stopped: when
\* run() has ended, on whatever path, the monitoring flag is False; with the
\* flag False the thread at its loop test leaves the loop, so that at most
\* the iteration in progress still runs; a thread that has left the loop
\* writes no stats; and the thread does leave the loop.
C25_MonitoringAlwaysStopped ==
    /\ []((pc \in {"done", "raised"} /\ failedIn \notin {"setup", "model"})
             => ~monitoring)
    /\ [][(~monitoring /\ monPc = "check" /\ monPc' # monPc) => monPc' = "off"]_vars
    /\ [][(monPc = "off" /\ pc' # "idle") =>
             (monStats' = monStats /\ (monPc' # "off" => pc = "init"))]_vars
    /\ ((pc \in {"done", "raised"} /\ ~monitoring) ~> monPc = "off")

\* C25 witness: the add call of the second batch raised while the thread was
\* in an iteration; the flag is off, and the thread has stats of that run.
C25_Witness ==
    /\ pc = "raised" /\ failedIn = "add" /\ Len(addCalls) = 2
    /\ ~monitoring /\ monPc = "poll" /\ monStats = 2

----------------------------------------------------------------------------
(* The collection name over a wider set of paths and model names: the      *)
(* constructor alone, started on each of them.                             *)

\* Paths and model names are put together from at most MaxParts parts.
NameParts == {<<"a">>, <<"b">>, DotJsonl, <<"d", Slash>>, Rep("x", 30)}
NameStems == {Concat(ps) : ps \in SeqsUpTo(NameParts, MaxParts)}
NameFiles == NameStems \cup {stem \o DotJsonl : stem \in NameStems}
NameModels == {<<"m">>, <<"o", Slash, "m">>, <<"o", Slash, "s", Slash, "m">>,
               <<"o", Slash>> \o Rep("y", 40)}

NameInit ==
    /\ store = <<>> /\ dbExists = FALSE /\ fileExists = FALSE /\ lines = <<>>
    /\ pc = "init"
    /\ input_file \in NameFiles /\ model_name \in NameModels /\ batch_size = 1
    /\ collection_name = <<>> /\ monitoring = FALSE /\ chunks = <<>>
    /\ batch_embeddings = <<>> /\ i = 0 /\ embedCalls = <<>> /\ addCalls = <<>>
    /\ failedIn = "" /\ store0 = <<>>
    /\ MonOff /\ SrvOff /\ ToolsOff("")
    /\ ValOff /\ MgrOff

NameNext ==
    \/ SetupCollection
    \/ LoadModel

NameSpec == NameInit /\ [][NameNext]_vars

HasSlash(s) == \E k \in DOMAIN s : s[k] = Slash

\* C4: for an input file name x.jsonl and a model name org/model the
\* collection name is x_model cut to its first 63 characters, and no
\* collection name is longer than 63 characters.
C4_NameIsStemAndModel ==
    pc \in {"load_model", "ready", "raised"} =>
        /\ Len(collection_name) <= 63
        /\ \A x \in NameStems, org, mdl \in {<<"o">>, <<"m">>, Rep("y", 40)} :
              (/\ input_file = x \o DotJsonl /\ ~HasSlash(x)
               /\ model_name = org \o <<Slash>> \o mdl)
              => collection_name =
                    SubSeq(x \o <<"_">> \o mdl, 1, Min(63, Len(x) + 1 + Len(mdl)))

----------------------------------------------------------------------------
(* The data validator: DataValidator of src/tools/data_validator.py.       *)
(* An error or a warning is kept as <<line number, kind>>.  The report's   *)
(* text-length summary and the pattern counters are display values and are *)
(* not modelled.                                                           *)

MinTextLen == 10
MaxTextLen == 16384

RequiredFields == <<"id", "text", "source">>

\* A mutant of ZeroStats: the line counter starts at one.
StatsFromOne ==
    [total_lines |-> 1, valid_docs |-> 0, empty_lines |-> 0, json_errors |-> 0,
     missing_fields |-> 0, duplicate_ids |-> 0, text_lengths |-> <<>>]

\* self.stats as __init__ leaves it
ZeroStats ==
    [total_lines |-> 0, valid_docs |-> 0, empty_lines |-> 0, json_errors |-> 0,
     missing_fields |-> 0, duplicate_ids |-> 0, text_lengths |-> <<>>]

\* The fields of required_fields that "field not in data" finds missing.
MissingFields(data) ==
    SelectSeq(RequiredFields, LAMBDA f : ~Has(data, f))

\* The warning the field loop gives for one field of a dict.
FieldWarning(data, f, n) ==
    IF ~Has(data, f) THEN <<>>
    ELSE IF ~IsStr(data.v[f]) THEN <<(<<n, "not_string">>)>>
    ELSE IF IsBlankStr(data.v[f].v) THEN <<(<<n, "empty">>)>>
    ELSE <<>>

LengthWarning(text, n) ==
    IF ValueLen(text) < MinTextLen THEN <<(<<n, "too_short">>)>>
    ELSE IF ValueLen(text) > MaxTextLen THEN <<(<<n, "too_long">>)>>
    ELSE <<>>

IdWarning(id, n) == IF ~IsWord(id) THEN <<(<<n, "special_chars">>)>> ELSE <<>>

\* _validate_document(data, line_num): whether it raised, what it returned
\* as 'valid', and the warnings and errors it appended before that.
ValidateDocument(data, n) ==
    IF data.t = "num"
    THEN \* "field not in data" on a number: TypeError
         [raised |-> TRUE, valid |-> FALSE, warns |-> <<>>, errs |-> <<>>]
    ELSE IF data.t = "arr"
    THEN \* no field name is an element of the array
         [raised |-> FALSE, valid |-> FALSE, warns |-> <<>>,
          errs |-> <<(<<n, "missing_fields">>)>>]
    ELSE IF data.t = "str"
    THEN \* a field name that occurs in the string is then used as its index
         IF \E k \in 1..3 : OccursIn(RequiredFields[k], data.v)
         THEN [raised |-> TRUE, valid |-> FALSE, warns |-> <<>>, errs |-> <<>>]
         ELSE [raised |-> FALSE, valid |-> FALSE, warns |-> <<>>,
               errs |-> <<(<<n, "missing_fields">>)>>]
    ELSE LET fw == FieldWarning(data, "id", n) \o FieldWarning(data, "text", n)
                     \o FieldWarning(data, "source", n)
         IN  IF MissingFields(data) # <<>>
             THEN [raised |-> FALSE, valid |-> FALSE, warns |-> fw,
                   errs |-> <<(<<n, "missing_fields">>)>>]
             ELSE IF ~IsSized(data.v["text"])
             THEN \* len() of a number: TypeError
                  [raised |-> TRUE, valid |-> FALSE, warns |-> fw, errs |-> <<>>]
             ELSE IF ~IsStr(data.v["id"])
             THEN \* re.match on a value that is no string: TypeError
                  [raised |-> TRUE, valid |-> FALSE,
                   warns |-> fw \o LengthWarning(data.v["text"], n),
                   errs |-> <<>>]
             ELSE [raised |-> FALSE, valid |-> TRUE,
                   warns |-> fw \o LengthWarning(data.v["text"], n)
                               \o IdWarning(data.v["id"].v, n),
                   errs |-> <<>>]

\* A mutant of SeenAfter: the id is not remembered.
SeenForgets(seen, id) == seen

\* seen_ids.add(doc_id)
SeenAfter(seen, id) == seen \cup {id}

\* A mutant of ReportPassed: a JSON error alone does not fail the file.
PassedIgnoringJson(es, ws, st) == st.missing_fields = 0 /\ st.duplicate_ids = 0

\* A mutant of ReportPassed: a warning fails the file.
PassedWithoutWarnings(es, ws, st) == Len(es) = 0 /\ Len(ws) = 0

\* _generate_report: 'validation_passed': len(self.errors) == 0
ReportPassed(es, ws, st) == Len(es) = 0

GenerateReport(es, ws, st) ==
    [validation_passed |-> ReportPassed(es, ws, st), stats |-> st,
     errors |-> es, warnings |-> ws]

\* The files the validator is started on: every file of at most MaxValLines
\* lines of these kinds, and the ten-line files of nine good records and one
\* cut line.
MoreLines ==
    [Rec1Again |-> RecLine("doc_1", "second text chunk", "b/c.txt"),
     OddRec |-> RecLine("doc 4!", "short", "a.txt"),
     LongRec |-> RecLine("doc_3", LongText, "a.txt"),
     EmptyTextRec |-> RecLine("doc_2", "", "  "),
     NumTextRec |-> <<"{", "id", ":", "doc_1", ",", "text", ":", "7", ",",
                      "source", ":", "a.txt", "}">>,
     NumIdRec |-> <<"{", "id", ":", "7", ",", "text", ":", "short", ",",
                    "source", ":", "a.txt", "}">>,
     NumSourceRec |-> <<"{", "id", ":", "doc_1", ",", "text", ":",
                        "first text chunk", ",", "source", ":", "7", "}">>,
     ArrTextRec |-> <<"{", "id", ":", "doc_2", ",", "text", ":", "[", "]", ",",
                      "source", ":", "a.txt", "}">>,
     ArrayLine |-> <<"[", "]">>,
     StringLine |-> <<"short">>,
     TextStringLine |-> <<"first text chunk">>]
ValLines == {BlankLine, CutLine, NumberLine, NoIdLine, Rec1, Rec2}
                \cup {MoreLines[kind] : kind \in DOMAIN MoreLines}
TenLineFile(p) ==
    LET ids == <<"doc_1", "doc_2", "doc_3", "doc_5", "doc_6", "doc_7", "doc_8",
                 "doc_9", "doc_10">>
    IN  [k \in 1..10 |->
            IF k = p THEN CutLine
            ELSE RecLine(ids[IF k < p THEN k ELSE k - 1], "first text chunk", "a.txt")]

ValInit ==
    /\ store = <<>> /\ dbExists = FALSE
    /\ fileExists \in BOOLEAN
    /\ lines \in SeqsUpTo(ValLines, MaxValLines) \cup {TenLineFile(p) : p \in 1..10}
    /\ fileExists \/ lines = <<>>
    /\ pc = "idle" /\ input_file = <<>> /\ model_name = <<>> /\ batch_size = 1
    /\ collection_name = <<>> /\ monitoring = FALSE /\ chunks = <<>>
    /\ batch_embeddings = <<>> /\ i = 0 /\ embedCalls = <<>> /\ addCalls = <<>>
    /\ failedIn = "" /\ store0 = <<>>
    /\ MonOff /\ SrvOff /\ ToolsOff("")
    /\ vpc = "start" /\ line_num = 0 /\ stats = ZeroStats /\ errors = <<>>
    /\ warnings = <<>> /\ seen_ids = {} /\ report = <<>>
    /\ MgrOff

\* validate(): the file does not exist.
ValidateMissingFile ==
    /\ vpc = "start" /\ ~fileExists
    /\ errors' = Append(errors, <<0, "missing_file">>)
    /\ report' = GenerateReport(errors', warnings, stats)
    /\ vpc' = "reported"
    /\ UNCHANGED <<line_num, stats, warnings, seen_ids, worldVars, vecVars, mgrVars, srvVars, toolVars>>

\* validate(): one pass of the loop over the file's lines.
ValidateLine ==
    /\ vpc \in {"start", "loop"} /\ fileExists /\ line_num < Len(lines)
    /\ line_num' = line_num + 1
    /\ LET line == lines[line_num']
           st1 == [stats EXCEPT !.total_lines = @ + 1]
           parsed == JsonLoads(line)
           res == ValidateDocument(parsed.val, line_num')
           doc_id == parsed.val.v["id"]
           st2 == [st1 EXCEPT !.valid_docs = @ + 1]
           dup == doc_id \in seen_ids
           st3 == IF dup THEN [st2 EXCEPT !.duplicate_ids = @ + 1] ELSE st2
           st4 == [st3 EXCEPT !.text_lengths =
                                  Append(@, ValueLen(parsed.val.v["text"]))]
       IN  IF IsBlank(line)
           THEN /\ stats' = [st1 EXCEPT !.empty_lines = @ + 1]
                /\ vpc' = "loop"
                /\ UNCHANGED <<errors, warnings, seen_ids>>
           ELSE IF ~parsed.ok
           THEN /\ stats' = [st1 EXCEPT !.json_errors = @ + 1]
                /\ errors' = Append(errors, <<line_num', "json">>)
                /\ vpc' = "loop"
                /\ UNCHANGED <<warnings, seen_ids>>
           ELSE IF res.raised
           THEN /\ stats' = st1
                /\ warnings' = warnings \o res.warns
                /\ vpc' = "raised"
                /\ UNCHANGED <<errors, seen_ids>>
           ELSE IF ~res.valid
           THEN /\ stats' = [st1 EXCEPT !.missing_fields = @ + 1]
                /\ errors' = errors \o res.errs
                /\ warnings' = warnings \o res.warns
                /\ vpc' = "loop"
                /\ UNCHANGED seen_ids
           ELSE /\ warnings' = warnings \o res.warns
                /\ errors' = IF dup THEN Append(errors, <<line_num', "duplicate_id">>)
                             ELSE errors
                /\ seen_ids' = IF dup THEN seen_ids ELSE SeenAfter(seen_ids, doc_id)
                /\ IF IsStr(parsed.val.v["source"])
                   THEN stats' = st4 /\ vpc' = "loop"
                   ELSE \* _extract_pattern: re.sub on no string: TypeError
                        stats' = st4 /\ vpc' = "raised"
    /\ UNCHANGED <<report, worldVars, vecVars, mgrVars, srvVars, toolVars>>

\* validate(): the file is read; _generate_report.
ValidateReport ==
    /\ vpc \in {"start", "loop"} /\ fileExists /\ line_num = Len(lines)
    /\ report' = GenerateReport(errors, warnings, stats)
    /\ vpc' = "reported"
    /\ UNCHANGED <<line_num, stats, errors, warnings, seen_ids, worldVars, vecVars,
                   mgrVars, srvVars, toolVars>>

\* A mutant of ExitStatus: a file with a valid document exits with 0.
ExitStatusOfValidDocs(rep) == IF rep.stats.valid_docs > 0 THEN 0 ELSE 1

\* exit(0 if report['validation_passed'] else 1)
ExitStatus(rep) == IF rep.validation_passed THEN 0 ELSE 1

\* main() after validate(): the report is saved when --output is given, and
\* the process exits.
ValidateExit ==
    /\ vpc = "reported"
    /\ \/ vpc' = IF ExitStatus(report) = 0 THEN "exit0" ELSE "exit1"
       \/ \* --output: open or json.dump raises, the exception ends the
          \* process with a traceback and status 1
          vpc' = "output_raised"
    /\ UNCHANGED <<line_num, stats, errors, warnings, seen_ids, report, worldVars,
                   vecVars, mgrVars, srvVars, toolVars>>

ValNext ==
    \/ ValidateMissingFile
    \/ ValidateLine
    \/ ValidateReport
    \/ ValidateExit

ValSpec == ValInit /\ [][ValNext]_vars

----------------------------------------------------------------------------
(* Properties of the validator.                                            *)

TenLines == \E p \in 1..10 : lines = TenLineFile(p)

\* C5 as claimed: the ten-line file of one cut line and nine good records
\* is reported with json_errors = 1, valid_docs = 9 and validation_passed
\* true; a JSON error alone does not fail a file.
C5_CutLineStillPasses ==
    vpc = "reported" =>
        /\ TenLines =>
              /\ report.stats.json_errors = 1
              /\ report.stats.valid_docs = 9
              /\ report.validation_passed
        /\ (report.stats.json_errors > 0 /\ report.stats.missing_fields = 0
               /\ report.stats.duplicate_ids = 0) => report.validation_passed

\* C5 as amended: the ten-line file is reported with json_errors = 1,
\* valid_docs = 9 and validation_passed false; every file with a JSON parse
\* failure fails validation.
C5_CutLineFailsValidation ==
    vpc = "reported" =>
        /\ TenLines =>
              /\ report.stats.json_errors = 1
              /\ report.stats.valid_docs = 9
              /\ ~report.validation_passed
        /\ report.stats.json_errors > 0 => ~report.validation_passed

\* C5 witness: the report of a ten-line file.
C5_Witness == vpc = "reported" /\ TenLines /\ report.stats.total_lines = 10

\* C6: validation passes exactly when no hard error was recorded (missing
\* file, JSON parse failure, missing field, duplicate id), however many
\* warnings there are.
C6_PassIffNoHardError ==
    vpc = "reported" =>
        (report.validation_passed <=>
            /\ fileExists
            /\ report.stats.json_errors = 0
            /\ report.stats.missing_fields = 0
            /\ report.stats.duplicate_ids = 0)

\* C6 witness: a file that passes with warnings of several kinds, one of
\* them for a field that is no string.
C6_Witness ==
    /\ vpc = "reported" /\ report.validation_passed
    /\ {"not_string", "too_short", "special_chars"}
          \subseteq {report.warnings[k][2] : k \in DOMAIN report.warnings}

\* The lines among the first n that hold a record with all three fields.
RecordLines(n) ==
    {k \in 1..n : /\ ~IsBlank(lines[k]) /\ JsonLoads(lines[k]).ok
                  /\ IsObj(JsonLoads(lines[k]).val)
                  /\ \A f \in Keys : Has(JsonLoads(lines[k]).val, f)}
IdAt(k) == JsonLoads(lines[k]).val.v["id"]

\* C7: duplicate_ids is the number of records whose id an earlier record
\* had, that is the number of records less the number of distinct ids; each
\* of them adds one error and is counted in valid_docs.
C7_DuplicateIdsCounted ==
    vpc \in {"loop", "reported"} =>
        LET recs == RecordLines(line_num)
            later == {k \in recs : \E j \in recs : j < k /\ IdAt(j) = IdAt(k)}
        IN  /\ stats.duplicate_ids = Cardinality(later)
            /\ stats.duplicate_ids = Cardinality(recs) - Cardinality({IdAt(k) : k \in recs})
            /\ stats.valid_docs = Cardinality(recs)
            /\ {e \in Range(errors) : e[2] = "duplicate_id"}
                  = {<<k, "duplicate_id">> : k \in later}

\* C7 witness: three records sharing one id are reported as two duplicates.
C7_Witness ==
    /\ vpc = "reported" /\ report.stats.valid_docs = 3
    /\ report.stats.duplicate_ids = 2 /\ Cardinality(seen_ids) = 1

\* C19: the validator tolerates bad records: for every existing input file
\* validate() never stops before the last line; it visits every line and
\* returns a report, and every line that does not parse or holds no object
\* has left an error or a warning carrying its line number.
C19_ValidatorToleratesBadRecords ==
    fileExists =>
        /\ vpc # "raised"
        /\ vpc = "reported" =>
              /\ line_num = Len(lines)
              /\ report.stats.total_lines = Len(lines)
              /\ \A n \in DOMAIN lines :
                    (~IsBlank(lines[n]) /\ (~JsonLoads(lines[n]).ok
                                              \/ ~IsObj(JsonLoads(lines[n]).val))) =>
                        \E k \in DOMAIN errors \cup DOMAIN warnings :
                            \/ k \in DOMAIN errors /\ errors[k][1] = n
                            \/ k \in DOMAIN warnings /\ warnings[k][1] = n

\* C22 as claimed: the validator command exits with status 0 if and only if
\* the report's validation_passed is True, and with status 1 otherwise.
C22_ExitZeroIffPassed ==
    vpc \in {"exit0", "exit1", "output_raised"} =>
        (vpc = "exit0" <=> report.validation_passed)

\* C22 as amended: a command that reaches its exit call exits with status 0
\* if and only if the report's validation_passed is True, and with status 1
\* otherwise, the missing input file included; a report that did not pass
\* never ends in status 0; and a command whose --output report cannot be
\* written ends by that exception, whatever the report says.
C22_ExitFollowsReport ==
    /\ vpc \in {"exit0", "exit1"} => (vpc = "exit0" <=> report.validation_passed)
    /\ (vpc \in {"exit0", "exit1", "output_raised"} /\ ~report.validation_passed)
          => vpc # "exit0"
    /\ (vpc \in {"exit0", "exit1", "output_raised"} /\ ~fileExists) => vpc # "exit0"

\* C22 witness: a file of a good record and a cut line has exited with 1.
C22_Witness ==
    /\ vpc = "exit1" /\ fileExists /\ lines = <<Rec1, CutLine>>
    /\ ~report.validation_passed /\ report.stats.valid_docs = 1

\* C26: after validate() has processed any prefix of the file, every line
\* read so far is counted in exactly one bucket: total_lines is the number of
\* lines read and equals empty_lines + json_errors + missing_fields +
\* valid_docs, and text_lengths holds one length per valid document.  The
\* line on which validate() raised is the only one that can be in no bucket.
C26_EveryLineInOneBucket ==
    LET buckets == stats.empty_lines + stats.json_errors + stats.missing_fields
                       + stats.valid_docs
    IN  /\ (vpc \in {"start", "loop", "reported", "exit0", "exit1", "output_raised"}
               /\ fileExists) =>
              /\ stats.total_lines = line_num
              /\ stats.total_lines = buckets
              /\ Len(stats.text_lengths) = stats.valid_docs
        /\ vpc = "reported" => report.stats = stats
        /\ vpc = "raised" =>
              /\ stats.total_lines = line_num
              /\ stats.total_lines - buckets \in {0, 1}
              /\ Len(stats.text_lengths) = stats.valid_docs

\* C26 witness: two lines of a three-line file are read, a blank one and a
\* record, and one line is still to come.
C26_Witness ==
    /\ vpc = "loop" /\ line_num = 2 /\ Len(lines) = 3
    /\ stats.empty_lines = 1 /\ stats.valid_docs = 1 /\ stats.total_lines = 2
    /\ ~JsonLoads(lines[3]).ok

----------------------------------------------------------------------------
(* The collection manager: main() and CollectionManager of                 *)
(* src/tools/collection_manager.py, started on a database the vectorizer   *)
(* has filled.  The export file is the sequence of the JSON tokens         *)
(* json.dump writes.                                                       *)

NoLimit == -1

RECURSIVE NameLit(_)
\* A name as one string literal.
NameLit(name) == IF name = <<>> THEN "" ELSE Head(name) \o NameLit(Tail(name))

RECURSIVE JoinItems(_)
\* The items of a list or an object, "," and a line break between them.
JoinItems(items) ==
    IF items = <<>> THEN <<>>
    ELSE IF Len(items) = 1 THEN <<WS>> \o items[1] \o <<WS>>
    ELSE <<WS>> \o items[1] \o <<",">> \o JoinItems(Tail(items))

RECURSIVE JsonDump(_)
\* json.dump of a string, a number or a list, with indent=2.
JsonDump(v) ==
    IF v.t \in {"str", "num"} THEN <<v.v>>
    ELSE <<"[">> \o JoinItems([k \in DOMAIN v.v |-> JsonDump(v.v[k])]) \o <<"]">>

\* json.dump of a dict: keys in insertion order, each with its dumped value.
DumpDict(keys, dumped) ==
    <<"{">> \o JoinItems([k \in DOMAIN keys |-> <<keys[k], ":", WS>> \o dumped[k]])
            \o <<"}">>

\* A row's metadata as the vectorizer stored it.
DumpMetadata(m) == DumpDict(<<"source">>, <<JsonDump(m.source)>>)

\* collection.metadata of a collection _setup_collection created.
CollectionMetadata == DumpDict(<<"hnsw:space">>, <<<<"cosine">>>>)

\* datetime.now().isoformat()
ExportTime == "2026-01-01T00:00:00"

\* A mutant of ExportData: the sample of rows inspect_collection shows.
ExportDataSample(name, rows, limit) ==
    LET data == GetRows(rows, 1)
    IN  [collection_name |-> NameLit(name), count |-> Len(data), data |-> data]

\* export_collection: what collection.get returned, and its count.
ExportData(name, rows, limit) ==
    LET data == GetRows(rows, limit)
    IN  [collection_name |-> NameLit(name), count |-> Len(data), data |-> data]

\* json.dump(export_data, f, ensure_ascii=False, indent=2)
DumpExport(d) ==
    LET column(cells) == <<"[">> \o JoinItems(cells) \o <<"]">>
        rows == d.data
        ids == column([k \in DOMAIN rows |-> JsonDump(rows[k].id)])
        documents == column([k \in DOMAIN rows |-> JsonDump(rows[k].document)])
        metadatas == column([k \in DOMAIN rows |-> DumpMetadata(rows[k].metadata)])
        embeddings == column([k \in DOMAIN rows |-> JsonDump(rows[k].embedding)])
    IN  DumpDict(<<"collection_name", "export_time", "count", "metadata", "data">>,
                 << <<d.collection_name>>, <<ExportTime>>, <<ToString(d.count)>>,
                    CollectionMetadata,
                    DumpDict(<<"ids", "documents", "metadatas", "embeddings">>,
                             <<ids, documents, metadatas, embeddings>>) >>)

\* os.path.dirname(output) is not empty.
HasDirectory(output) == \E k \in DOMAIN output : output[k] = Slash

MgrNames == {<<"a", "_", "m">>, <<"b", "_", "m">>}
\* The rows the vectorizer stores for the records of its files.
MgrRows == {RowOf(JsonLoads(line).val) : line \in {Rec1, Rec2, Rec3}}
\* A collection holds each id once.
MgrCollections ==
    {rows \in SeqsUpTo(MgrRows, MaxRows) : NoDuplicates(RowIds(rows))}
MgrStores ==
    {<<>>} \cup
    UNION {[names -> MgrCollections] : names \in (SUBSET MgrNames) \ {{}}}

MgrInit ==
    /\ dbExists \in BOOLEAN /\ store \in MgrStores
    /\ dbExists \/ store = <<>>
    /\ fileExists = FALSE /\ lines = <<>>
    /\ pc = "idle" /\ input_file = <<>> /\ model_name = <<>> /\ batch_size = 1
    /\ collection_name = <<>> /\ monitoring = FALSE /\ chunks = <<>>
    /\ batch_embeddings = <<>> /\ i = 0 /\ embedCalls = <<>> /\ addCalls = <<>>
    /\ failedIn = "" /\ store0 = <<>>
    /\ MonOff /\ SrvOff /\ ToolsOff("")
    /\ ValOff
    /\ mpc = "idle" /\ mArgs = <<>> /\ exportFile = <<>> /\ mResult = ""
    /\ deleteCalls = <<>>

\* A mutant of GetCollection: the collection is created when it is missing.
GetCollectionCreating(db, name) ==
    [found |-> TRUE, db |-> GetOrCreateCollection(db, name)]

\* self.client.get_collection(collection_name): whether it returned a
\* collection (it raises otherwise), and the database after the call.
GetCollection(db, name) == [found |-> Exists(db, name), db |-> db]

\* main() up to the command: the arguments, the check of the database path
\* and the construction of the manager.  An option is drawn only for the
\* command that reads it; response is what the user will type when delete
\* asks.
MgrMain ==
    /\ mpc = "idle"
    /\ \E command \in {"", "list", "inspect", "search", "delete", "export"},
          name \in MgrNames, output \in {<<"o">>, <<"e", Slash, "o">>},
          limit \in {NoLimit} \cup (1..MaxRows), force \in BOOLEAN,
          response \in {"y", "Y", "n", "yes", ""} :
          /\ command # "export" => (output = <<"o">> /\ limit = NoLimit)
          /\ command # "delete" => ~force
          /\ (command # "delete" \/ force) => response = ""
          /\ command \in {"", "list"} => name = <<"a", "_", "m">>
          /\ mArgs' = [command |-> command, collection |-> name, output |-> output,
                       limit |-> limit, force |-> force, response |-> response]
    /\ mResult' = "" /\ deleteCalls' = <<>>
    /\ IF mArgs'.command = "" \/ ~dbExists
       THEN mpc' = "returned"
       ELSE \/ mpc' = "connected"
            \/ \* chromadb.PersistentClient raises
               mpc' = "returned"
    /\ UNCHANGED <<worldVars, vecVars, valVars, srvVars, toolVars, exportFile>>

\* The list command: list_collections.  mResult is the number of collections
\* it returned information on.
MgrList ==
    /\ mpc = "connected" /\ mArgs.command = "list"
    /\ \/ /\ mpc' = "returned"
          /\ \E failed \in SUBSET DOMAIN store :
                \* collection.count raises for these: they are passed over
                mResult' = ToString(Cardinality(DOMAIN store \ failed))
       \/ \* client.list_collections raises
          mpc' = "raised" /\ UNCHANGED mResult
    /\ UNCHANGED <<worldVars, vecVars, valVars, srvVars, toolVars, mArgs, exportFile,
                   deleteCalls>>

\* The inspect command: inspect_collection.  mResult names the keys of the
\* dictionary it returned.
MgrInspect ==
    /\ mpc = "connected" /\ mArgs.command = "inspect"
    /\ LET got == GetCollection(store, mArgs.collection)
       IN  /\ store' = got.db
           /\ IF ~got.found
              THEN mpc' = "returned" /\ mResult' = "{}"
              ELSE \/ /\ mpc' = "returned"
                      /\ mResult' = IF got.db[mArgs.collection] = <<>>
                                    THEN "name,count"
                                    ELSE "name,count,metadata,embedding_dim,sample_doc_lengths"
                   \/ \* collection.get raises
                      /\ got.db[mArgs.collection] # <<>>
                      /\ mpc' = "returned" /\ mResult' = "name,count,metadata"
                   \/ \* collection.count raises
                      mpc' = "raised" /\ UNCHANGED mResult
    /\ UNCHANGED <<dbExists, fileExists, lines, vecVars, valVars, srvVars, toolVars,
                   mArgs, exportFile, deleteCalls>>

\* The search command: search_collection.  mResult is the number of results
\* it returned.
MgrSearch ==
    /\ mpc = "connected" /\ mArgs.command = "search"
    /\ mpc' = "returned"
    /\ LET got == GetCollection(store, mArgs.collection)
       IN  /\ store' = got.db
           /\ IF ~got.found
              THEN mResult' = "0"
              ELSE \/ \E n_results \in {1, 5} :
                         mResult' = ToString(Min(n_results,
                                                 Len(got.db[mArgs.collection])))
                   \/ \* collection.query raises
                      mResult' = "0"
    /\ UNCHANGED <<dbExists, fileExists, lines, vecVars, valVars, srvVars, toolVars,
                   mArgs, exportFile, deleteCalls>>

\* The delete command: delete_collection(collection, confirm = args.force).
MgrDelete ==
    /\ mpc = "connected" /\ mArgs.command = "delete"
    /\ \/ \* input() raises EOFError: no answer can be read
          /\ ~mArgs.force
          /\ mpc' = "raised" /\ UNCHANGED <<store, mResult, deleteCalls>>
       \/    /\ mpc' = "returned"
             /\ IF ~mArgs.force /\ mArgs.response \notin {"y", "Y"}
                THEN mResult' = "False" /\ UNCHANGED <<store, deleteCalls>>
                ELSE /\ deleteCalls' = Append(deleteCalls, mArgs.collection)
                     /\ IF ~Exists(store, mArgs.collection)
                        THEN \* client.delete_collection raises: no such collection
                             mResult' = "False" /\ UNCHANGED store
                        ELSE \/ /\ store' = DeleteCollection(store, mArgs.collection)
                                /\ mResult' = "True"
                             \/ \* client.delete_collection raises
                                mResult' = "False" /\ UNCHANGED store
    /\ UNCHANGED <<dbExists, fileExists, lines, vecVars, valVars, srvVars, toolVars,
                   mArgs, exportFile>>

\* The export command: os.makedirs for the output's directory, then
\* export_collection.
MgrExport ==
    /\ mpc = "connected" /\ mArgs.command = "export"
    /\ IF ~HasDirectory(mArgs.output)
       THEN \* os.makedirs('') raises FileNotFoundError
            mpc' = "raised" /\ UNCHANGED <<exportFile, mResult>>
       ELSE /\ mpc' = "exported"
            /\ IF ~Exists(store, mArgs.collection)
               THEN mResult' = "False" /\ UNCHANGED exportFile
               ELSE LET dump == DumpExport(ExportData(mArgs.collection,
                                                      store[mArgs.collection],
                                                      mArgs.limit))
                    IN  \/ mResult' = "True" /\ exportFile' = dump
                        \/ \* collection.get or open raises
                           mResult' = "False" /\ UNCHANGED exportFile
                        \/ \* json.dump raises after it has written a part
                           /\ mResult' = "False"
                           /\ \E n \in {0, Len(dump) \div 2} :
                                 exportFile' = SubSeq(dump, 1, n)
    /\ UNCHANGED <<worldVars, vecVars, valVars, srvVars, toolVars, mArgs,
                   deleteCalls>>

\* The process ends; the export file stays on disk.
MgrExit ==
    /\ mpc \in {"returned", "raised", "exported"}
    /\ mpc' = "idle" /\ mArgs' = <<>> /\ mResult' = "" /\ deleteCalls' = <<>>
    /\ UNCHANGED <<worldVars, vecVars, valVars, srvVars, toolVars, exportFile>>

MgrNext ==
    \/ MgrMain
    \/ MgrList
    \/ MgrInspect
    \/ MgrSearch
    \/ MgrDelete
    \/ MgrExport
    \/ MgrExit

MgrSpec == MgrInit /\ [][MgrNext]_vars

----------------------------------------------------------------------------
(* Properties of the collection manager.                                   *)

\* json.load of the export file.
Reloaded == JsonLoads(exportFile)
ExportColumns == {"ids", "documents", "metadatas", "embeddings"}

\* C8: after an export without a limit that returned True, the reloaded
\* file's count and its set of ids are those of the live collection, and
\* each of the four arrays under data has count entries.
C8_ExportRoundTrip ==
    (mpc = "exported" /\ mResult = "True" /\ mArgs.limit = NoLimit) =>
        LET live == store[mArgs.collection]
            data == Reloaded.val.v["data"].v
        IN  /\ Reloaded.ok
            /\ Reloaded.val.v["count"] = NumV(ToString(Len(live)))
            /\ Range(data["ids"].v) = IdSet(live)
            /\ \A c \in ExportColumns : Len(data[c].v) = Len(live)

\* C8's case: a collection of MaxRows rows has been exported without a limit.
C8_Witness ==
    /\ mpc = "exported" /\ mResult = "True" /\ mArgs.limit = NoLimit
    /\ Len(store[mArgs.collection]) = MaxRows
    /\ Reloaded.ok /\ Reloaded.val.v["count"] = NumV(ToString(MaxRows))

\* C27: delete_collection removes a collection only when it is confirmed.
\* Over the step of the delete command: with confirm False and an answer
\* other than y or Y it returns False, issues no delete and leaves the
\* database as it was; with confirm True, or the answer y or Y, it issues
\* exactly one delete, for the named collection, and returns True exactly
\* when that delete removed the collection; every other collection keeps its
\* rows and no collection appears.
C27_DeleteOnlyWhenConfirmed ==
    [][(mpc = "connected" /\ mArgs.command = "delete" /\ mpc' = "returned") =>
          LET confirmed == mArgs.force \/ mArgs.response \in {"y", "Y"}
              name == mArgs.collection
          IN  /\ ~confirmed =>
                    (mResult' = "False" /\ deleteCalls' = <<>> /\ store' = store)
              /\ confirmed => deleteCalls' = <<name>>
              /\ mResult' \in {"True", "False"}
              /\ mResult' = "True" <=>
                    (confirmed /\ Exists(store, name) /\ ~Exists(store', name))
              /\ mResult' = "False" => store' = store
              /\ DOMAIN store' \subseteq DOMAIN store
              /\ \A other \in DOMAIN store \ {name} :
                    other \in DOMAIN store' /\ store'[other] = store[other]]_vars

\* C27 witness: the delete command, answered Y, has removed its collection
\* and the other collection still holds its two rows.
C27_Witness ==
    /\ mpc = "returned" /\ mArgs.command = "delete" /\ ~mArgs.force
    /\ mArgs.response = "Y" /\ mResult = "True" /\ deleteCalls = <<mArgs.collection>>
    /\ ~Exists(store, mArgs.collection)
    /\ \E other \in DOMAIN store : Len(store[other]) = 2


----------------------------------------------------------------------------
(* The MCP server: src/mcp_server/chroma_mcp_server_minimal.py, started on *)
(* a database the vectorizer has filled.  A tool call is one step: the     *)
(* handler runs from its try to its return.  The result of a query is the  *)
(* sequence of the rows it found, nearest first.                           *)

\* The default of --memory-collection-name.
UserMemories == <<"u", "s", "e", "r", "_", "m", "e", "m", "o", "r", "i", "e", "s">>

\* device = "cuda" if args.device == "auto" and torch.cuda.is_available()
\*          else "cpu"
SelectDevice(option, cuda) == IF option = "auto" /\ cuda THEN "cuda" ELSE "cpu"

\* A mutant of MemoryId: the id carries no generated token.
MemoryIdFixed(n) == StrV("memory_")

\* f"memory_{uuid.uuid4()}", n numbering the tokens generated so far.
MemoryId(n) == StrV("memory_" \o ToString(n))

\* The row remember hands to memory_collection.add; "now" stands for the
\* clock reading of datetime.utcnow().isoformat().
MemoryRow(id, memory_text) ==
    [id |-> id, embedding |-> Vec(StrV(memory_text)), document |-> StrV(memory_text),
     metadata |-> [source |-> StrV("user_memory"), timestamp_utc |-> StrV("now")]]

\* collection.query(query_embeddings=[v], n_results=n): at most n rows, those
\* with the vector v before the others, each group in insertion order.
Nearest(rows, v, n) ==
    LET sorted == SelectSeq(rows, LAMBDA r : r.embedding = v)
                      \o SelectSeq(rows, LAMBDA r : r.embedding # v)
    IN  SubSeq(sorted, 1, Min(n, Len(sorted)))

\* A mutant of Failed: the failure is reported as a success.
FailedQuietly(error) == [success |-> TRUE, error |-> error]

\* return {"success": False, "error": ...}
Failed(error) == [success |-> FALSE, error |-> error]

SrvInit ==
    /\ dbExists \in BOOLEAN
    /\ store \in {<<>>} \cup {(<<"a", "_", "m">> :> rows) : rows \in MgrCollections}
    /\ dbExists \/ store = <<>>
    /\ fileExists = FALSE /\ lines = <<>>
    /\ pc = "idle" /\ input_file = <<>> /\ model_name = <<>> /\ batch_size = 1
    /\ collection_name = <<>> /\ monitoring = FALSE /\ chunks = <<>>
    /\ batch_embeddings = <<>> /\ i = 0 /\ embedCalls = <<>> /\ addCalls = <<>>
    /\ failedIn = "" /\ store0 = <<>>
    /\ MonOff /\ ToolsOff("") /\ ValOff /\ MgrOff
    /\ spc = "start"
    /\ sArgs \in [collection : MgrNames, memory : {UserMemories, <<"a", "_", "m">>},
                  device : {"auto", "cuda", "cpu"}, cuda : BOOLEAN]
    /\ device = "" /\ uuids = 0 /\ sCall = <<>> /\ sResult = <<>> /\ sInit = <<>>

\* __main__: the device, the database path, the client, the model and the
\* two collections; then mcp.run.  Any exception ends the process.
SrvStart ==
    /\ spc = "start"
    /\ device' = SelectDevice(sArgs.device, sArgs.cuda)
    /\ IF ~dbExists
       THEN spc' = "exited" /\ sInit' = <<>> /\ UNCHANGED store
       ELSE \/ \* chromadb.PersistentClient raises
               spc' = "exited" /\ sInit' = <<>> /\ UNCHANGED store
            \/ \* SentenceTransformer raises
               spc' = "exited" /\ sInit' = <<"client">> /\ UNCHANGED store
            \/ IF ~Exists(store, sArgs.collection)
               THEN \* client.get_collection raises
                    /\ spc' = "exited" /\ sInit' = <<"client", "model">>
                    /\ UNCHANGED store
               ELSE \/ /\ store' = GetOrCreateCollection(store, sArgs.memory)
                       /\ sInit' = <<"client", "model", "collection",
                                     "memory_collection">>
                       /\ spc' = "serving"
                    \/ \* client.get_or_create_collection raises
                       /\ spc' = "exited"
                       /\ sInit' = <<"client", "model", "collection">>
                       /\ UNCHANGED store
    /\ UNCHANGED <<dbExists, fileExists, lines, vecVars, valVars, mgrVars, toolVars,
                   sArgs, uuids, sCall, sResult>>

\* The list_collections tool.
ListCollections ==
    /\ spc = "serving"
    /\ \/ /\ sResult' = [success |-> TRUE, collections |-> DOMAIN store]
          /\ sCall' = [tool |-> "list_collections", encodes |-> 0, storeCalls |-> 1,
                       failed |-> ""]
       \/ \* client.list_collections raises
          /\ sResult' = Failed("Failed to list collections")
          /\ sCall' = [tool |-> "list_collections", encodes |-> 0, storeCalls |-> 1,
                       failed |-> "store"]
    /\ UNCHANGED <<worldVars, vecVars, valVars, mgrVars, toolVars, spc, sArgs, device,
                   uuids, sInit>>

\* The query tool and the search_memory tool: the same handler over the main
\* collection and over the memory collection.
QueryTool(tool, name) ==
    /\ spc = "serving"
    /\ \E query_text \in {"first text chunk", "short"}, n_results \in {1, 5} :
          \/ /\ sResult' = [success |-> TRUE,
                            results |-> Nearest(store[name], Vec(StrV(query_text)),
                                                n_results)]
             /\ sCall' = [tool |-> tool, encodes |-> 1, storeCalls |-> 1, failed |-> ""]
          \/ \* model.encode raises
             /\ sResult' = Failed("model")
             /\ sCall' = [tool |-> tool, encodes |-> 1, storeCalls |-> 0,
                          failed |-> "model"]
          \/ \* collection.query raises
             /\ sResult' = Failed("store")
             /\ sCall' = [tool |-> tool, encodes |-> 1, storeCalls |-> 1,
                          failed |-> "store"]
    /\ UNCHANGED <<worldVars, vecVars, valVars, mgrVars, toolVars, spc, sArgs, device,
                   uuids, sInit>>

Query == QueryTool("query", sArgs.collection)

SearchMemory == QueryTool("search_memory", sArgs.memory)

\* The remember tool.
Remember ==
    /\ spc = "serving" /\ uuids < MaxMemories
    /\ uuids' = uuids + 1
    /\ \E memory_text \in {"first text chunk", "short"} :
          LET memory_id == MemoryId(uuids')
          IN  \/ /\ store' = [store EXCEPT ![sArgs.memory] =
                                  AddRows(@, <<MemoryRow(memory_id, memory_text)>>)]
                 /\ sResult' = [success |-> TRUE,
                                message |-> "Memory stored successfully.",
                                memory_id |-> memory_id.v]
                 /\ sCall' = [tool |-> "remember", encodes |-> 1, storeCalls |-> 1,
                              failed |-> ""]
              \/ \* model.encode raises
                 /\ sResult' = Failed("model")
                 /\ sCall' = [tool |-> "remember", encodes |-> 1, storeCalls |-> 0,
                              failed |-> "model"]
                 /\ UNCHANGED store
              \/ \* memory_collection.add raises
                 /\ sResult' = Failed("store")
                 /\ sCall' = [tool |-> "remember", encodes |-> 1, storeCalls |-> 1,
                              failed |-> "store"]
                 /\ UNCHANGED store
    /\ UNCHANGED <<dbExists, fileExists, lines, vecVars, valVars, mgrVars, toolVars,
                   spc, sArgs, device, sInit>>

SrvNext ==
    \/ SrvStart
    \/ ListCollections
    \/ Query
    \/ SearchMemory
    \/ Remember

SrvSpec == SrvInit /\ [][SrvNext]_vars

----------------------------------------------------------------------------
(* Properties of the MCP server.                                           *)

\* The rows of the memory collection, in a database where it exists.
MemoryRows(db) == IF Exists(db, sArgs.memory) THEN db[sArgs.memory] ELSE <<>>

\* C15: over every sequence of tool calls the memory collection is
\* append-only: a step of the serving process keeps every row it holds, in
\* place and unchanged; a successful remember adds exactly one row, whose id
\* is "memory_" followed by a freshly generated token and differs from every
\* id the collection held; a failed remember and every other tool add none.
C15_MemoryAppendOnly ==
    [][(spc = "serving" /\ spc' = "serving") =>
          LET old == MemoryRows(store)
              new == MemoryRows(store')
              remembered == /\ sCall' # <<>> /\ sCall'.tool = "remember"
                            /\ uuids' # uuids /\ sResult'.success
          IN  /\ Len(new) >= Len(old)
              /\ SubSeq(new, 1, Len(old)) = old
              /\ remembered =>
                    /\ Len(new) = Len(old) + 1
                    /\ new[Len(new)].id = StrV(sResult'.memory_id)
                    /\ new[Len(new)].id = StrV("memory_" \o ToString(uuids'))
                    /\ \A k \in DOMAIN old : old[k].id # new[Len(new)].id
                    /\ \A n \in 1..uuids : new[Len(new)].id # StrV("memory_" \o ToString(n))
              /\ ~remembered => new = old]_vars

\* C15 witness: two memories were stored one after the other, and a failed
\* remember would leave both in place.
C15_Witness ==
    /\ spc = "serving" /\ uuids = 2 /\ sCall # <<>> /\ sCall.tool = "remember"
    /\ sResult.success
    /\ Len(MemoryRows(store)) >= 2
    /\ LET rows == MemoryRows(store)
       IN  /\ rows[Len(rows)].id = StrV("memory_2")
           /\ rows[Len(rows) - 1].id = StrV("memory_1")

\* The rows a result lists that remember has stored.
MemoriesIn(rows) ==
    {k \in DOMAIN rows : \E n \in 1..uuids : rows[k].id = MemoryId(n)}

\* C16: memories are kept apart from the queried collection, whatever the two
\* collection names are: a remember call leaves the rows of the main
\* collection as they were, a query returns no memory row, and search_memory
\* returns memory rows only.
C16_MemoriesKeptApart ==
    /\ [][(spc = "serving" /\ sCall' # <<>> /\ sCall'.tool = "remember"
              /\ uuids' # uuids) =>
             store'[sArgs.collection] = store[sArgs.collection]]_vars
    /\ []((spc = "serving" /\ sCall # <<>> /\ sResult.success) =>
             /\ sCall.tool = "query" => MemoriesIn(sResult.results) = {}
             /\ sCall.tool = "search_memory" =>
                   MemoriesIn(sResult.results) = DOMAIN sResult.results)

\* C17: every tool call returns a result carrying a success flag and never
\* raises: the process keeps serving; when the model or the store failed the
\* result is exactly {success: False, error: text}, with no result field
\* beside it; and the call encoded at most once and called the store at most
\* once.
C17_ToolsReturnSuccessFlag ==
    /\ []((spc = "serving" /\ sCall # <<>>) =>
             /\ "success" \in DOMAIN sResult
             /\ sResult.success \in BOOLEAN
             /\ sResult.success <=> sCall.failed = ""
             /\ sCall.failed # "" =>
                   /\ DOMAIN sResult = {"success", "error"}
                   /\ sResult.error # ""
             /\ sCall.encodes <= 1 /\ sCall.storeCalls <= 1
             /\ sCall.failed = "model" => sCall.storeCalls = 0)
    /\ [][spc = "serving" => spc' = "serving"]_vars

\* C17 witness: the store failed in a remember call that followed a
\* successful one; the failure is reported and the stored memory is kept.
C17_Witness ==
    /\ spc = "serving" /\ sCall # <<>> /\ sCall.tool = "remember"
    /\ sCall.failed = "store" /\ sResult = [success |-> FALSE, error |-> "store"]
    /\ uuids = 2 /\ Len(MemoryRows(store)) = 1

\* C18: the --device option selects the device the model is loaded on:
\* "cuda" loads on cuda, "cpu" loads on cpu, and "auto" loads on cuda when
\* CUDA is available and on cpu otherwise.
C18_DeviceOptionSelects ==
    spc = "serving" =>
        device = CASE sArgs.device = "cuda" -> "cuda"
                   [] sArgs.device = "cpu" -> "cpu"
                   [] OTHER -> IF sArgs.cuda THEN "cuda" ELSE "cpu"

----------------------------------------------------------------------------
(* DataValidator._extract_pattern over id and source strings, a string     *)
(* being the sequence of its characters.                                   *)

\* re.sub(class + '+', placeholder, s): every maximal run of characters of
\* the class becomes one placeholder, left to right.
SubRuns(s, class, placeholder) ==
    LET kept == {k \in DOMAIN s : s[k] \notin class \/ k = 1 \/ s[k - 1] \notin class}
        at(j) == CHOOSE k \in kept : Cardinality({m \in kept : m <= k}) = j
    IN  [j \in 1..Cardinality(kept) |->
            IF s[at(j)] \in class THEN placeholder ELSE s[at(j)]]

\* pattern = re.sub(r'\d+', 'N', text)
\* pattern = re.sub(r'[a-zA-Z]+', 'A', pattern)
ExtractPattern(str) ==
    SubRuns(SubRuns(str, {"0", "1"}, "N"), {"d", "o", "c", "N", "A"}, "A")

PatInit ==
    /\ store = <<>> /\ dbExists = FALSE /\ fileExists = FALSE /\ lines = <<>>
    /\ pc = "idle" /\ input_file = <<>> /\ model_name = <<>> /\ batch_size = 1
    /\ collection_name = <<>> /\ monitoring = FALSE /\ chunks = <<>>
    /\ batch_embeddings = <<>> /\ i = 0 /\ embedCalls = <<>> /\ addCalls = <<>>
    /\ failedIn = "" /\ store0 = <<>>
    /\ MonOff /\ SrvOff /\ ValOff /\ MgrOff /\ ToolsOff("pattern")
    /\ ppc = "start"
    /\ patText \in SeqsUpTo({"d", "o", "c", "N", "A", "0", "1", "_", "-"}, MaxPatLen)
                      \cup {<<"d", "o", "c", "_", "0", "0", "0", "0", "0", "1">>}
    /\ pattern = <<>>

\* One call of _extract_pattern(text).
ExtractPatternCall ==
    /\ ppc = "start"
    /\ pattern' = ExtractPattern(patText)
    /\ ppc' = "returned"
    /\ UNCHANGED <<worldVars, vecVars, valVars, mgrVars, srvVars, patText, filVars, genVars>>

PatSpec == PatInit /\ [][ExtractPatternCall]_vars

\* C20: _extract_pattern replaces every maximal run of digits by 'N' and
\* every maximal run of letters by 'A' and leaves every other character as
\* it is, so that a run of digits and a run of letters of the text stay
\* apart in the result: "doc_000001" gives "A_N".
C20_PatternKeepsDigitsApart ==
    ppc = "returned" =>
        LET digits == {"0", "1"}
            letters == {"d", "o", "c", "N", "A"}
            starts == {k \in DOMAIN patText :
                          \/ patText[k] \notin digits \cup letters
                          \/ k = 1
                          \/ (patText[k] \in digits) # (patText[k - 1] \in digits)
                          \/ (patText[k] \in letters) # (patText[k - 1] \in letters)}
            at(j) == CHOOSE k \in starts : Cardinality({m \in starts : m <= k}) = j
        IN  /\ pattern = [j \in 1..Cardinality(starts) |->
                             IF patText[at(j)] \in digits THEN "N"
                             ELSE IF patText[at(j)] \in letters THEN "A"
                             ELSE patText[at(j)]]
            /\ patText = <<"d", "o", "c", "_", "0", "0", "0", "0", "0", "1">>
                  => pattern = <<"A", "_", "N">>

----------------------------------------------------------------------------
(* The programs that read the database, each started on its own: the       *)
(* collection manager's commands and the MCP server's tools.               *)

ReadSpec == (MgrInit \/ SrvInit) /\ [][MgrNext \/ SrvNext]_vars

\* C21: the read-path operations never modify the database: a step of the
\* manager's list, inspect, search or export command, and a call of the MCP
\* tools list_collections, query or search_memory, leaves the set of
\* collections and the rows of every collection as they were, whether the
\* operation succeeded or failed.
C21_ReadPathLeavesDatabase ==
    [][(\/ /\ mpc = "connected"
           /\ mArgs.command \in {"list", "inspect", "search", "export"}
        \/ /\ spc = "serving" /\ sCall' # <<>>
           /\ sCall'.tool \in {"list_collections", "query", "search_memory"})
          => (store' = store /\ dbExists' = dbExists)]_vars

\* C21 witness: a search for a collection that does not exist has returned
\* with no result, and the other collection still holds its two rows.
C21_Witness ==
    /\ mpc = "returned" /\ mArgs.command = "search" /\ mResult = "0"
    /\ ~Exists(store, mArgs.collection)
    /\ \E name \in DOMAIN store : Len(store[name]) = 2

\* C28: the server serves requests only after the client, the model, the
\* main collection and the memory collection have been initialised, in that
\* order; a start that fails ends the process with status 1 before any
\* request is served and leaves the database as it was; with the database
\* path missing nothing is initialised, and with the main collection missing
\* the client and the model are and the memory collection is not created.
C28_ServesOnlyWhenInitialised ==
    /\ [](/\ spc = "serving" =>
                /\ sInit = <<"client", "model", "collection", "memory_collection">>
                /\ dbExists
                /\ Exists(store, sArgs.collection) /\ Exists(store, sArgs.memory)
          /\ spc = "exited" =>
                /\ sInit \in {<<>>, <<"client">>, <<"client", "model">>,
                              <<"client", "model", "collection">>}
                /\ ~dbExists => sInit = <<>>
                /\ (dbExists /\ ~Exists(store, sArgs.collection)) => Len(sInit) <= 2
          /\ sCall # <<>> => spc = "serving")
    /\ [][spc = "start" =>
             /\ spc' = "exited" => store' = store
             /\ (spc' = "serving" /\ Exists(store, sArgs.memory)) => store' = store
             /\ ~Exists(store, sArgs.collection) => spc' # "serving"]_vars

\* C28 witness: the database holds no collection of the name asked for; the
\* client and the model were initialised, the process has exited and the
\* memory collection does not exist.
C28_Witness ==
    /\ spc = "exited" /\ sInit = <<"client", "model">> /\ dbExists
    /\ ~Exists(store, sArgs.collection) /\ ~Exists(store, sArgs.memory)
    /\ \E name \in DOMAIN store : store[name] # <<>>

----------------------------------------------------------------------------
(* EmbeddingVisualizer.filter_outliers of src/src/visualizer.py.  The      *)
(* coordinates are integers and so is the threshold; a z-score is compared *)
(* with the threshold by its square, with the divisions multiplied out.    *)

\* Whether point k is an outlier of a projection: in some dimension the
\* standard deviation is positive and abs((x - mean) / std) > threshold.
IsOutlier(points, k, threshold) ==
    \E dim \in DOMAIN points[k] :
        LET n == Len(points)
            sum[j \in 0..n] == IF j = 0 THEN 0 ELSE sum[j - 1] + points[j][dim]
            squares[j \in 0..n] ==
                IF j = 0 THEN 0 ELSE squares[j - 1] + points[j][dim] * points[j][dim]
            spread == n * squares[n] - sum[n] * sum[n]
            off == n * points[k][dim] - sum[n]
        IN  spread > 0 /\ off * off > threshold * threshold * spread

\* A mutant of Masked: the mask is taken the wrong way round.
MaskedInverted(s, keep) ==
    LET at(j) == CHOOSE k \in DOMAIN s \ keep :
                     Cardinality({m \in DOMAIN s \ keep : m <= k}) = j
    IN  [j \in 1..Cardinality(DOMAIN s \ keep) |-> s[at(j)]]

\* array[keep_indices], and [x for i, x in enumerate(list) if keep_indices[i]]:
\* the elements at the positions the mask keeps, in their order.
Masked(s, keep) ==
    LET at(j) == CHOOSE k \in keep : Cardinality({m \in keep : m <= k}) = j
    IN  [j \in 1..Cardinality(keep) |-> s[at(j)]]

\* filter_outliers: the mask, and the six filtered values it returns.
FilterOutliers(in) ==
    LET outliers_3d == {k \in DOMAIN in.embeddings_3d :
                           IsOutlier(in.embeddings_3d, k, in.outlier_threshold)}
        outliers_2d == {k \in DOMAIN in.embeddings_2d :
                           IsOutlier(in.embeddings_2d, k, in.outlier_threshold)}
        outliers == outliers_2d \cup outliers_3d
        keep_indices == DOMAIN in.embeddings_2d \ outliers
    IN  [embeddings_2d |-> Masked(in.embeddings_2d, keep_indices),
         embeddings_3d |-> Masked(in.embeddings_3d, keep_indices),
         documents |-> Masked(in.documents, keep_indices),
         metadatas |-> Masked(in.metadatas, keep_indices),
         ids |-> Masked(in.ids, keep_indices),
         clusters |-> Masked(in.clusters, keep_indices)]

\* The calls: up to MaxPoints points, each with its 2-D and 3-D coordinates,
\* its document, metadata and id (numbered by position) and a cluster label.
FilInit ==
    /\ store = <<>> /\ dbExists = FALSE /\ fileExists = FALSE /\ lines = <<>>
    /\ pc = "idle" /\ input_file = <<>> /\ model_name = <<>> /\ batch_size = 1
    /\ collection_name = <<>> /\ monitoring = FALSE /\ chunks = <<>>
    /\ batch_embeddings = <<>> /\ i = 0 /\ embedCalls = <<>> /\ addCalls = <<>>
    /\ failedIn = "" /\ store0 = <<>>
    /\ MonOff /\ SrvOff /\ ValOff /\ MgrOff /\ ToolsOff("filter")
    /\ fpc = "start" /\ fOut = <<>>
    /\ \E points \in SeqsUpTo([xy : {<<0, 0>>, <<4, 0>>},
                               xyz : {<<0, 0, 0>>, <<0, 0, 4>>}], MaxPoints),
          threshold \in {1, 2} :
          fIn = [embeddings_2d |-> [k \in DOMAIN points |-> points[k].xy],
                 embeddings_3d |-> [k \in DOMAIN points |-> points[k].xyz],
                 documents |-> [k \in DOMAIN points |-> "document " \o ToString(k)],
                 metadatas |-> [k \in DOMAIN points |-> [source |-> ToString(k)]],
                 ids |-> [k \in DOMAIN points |-> "id_" \o ToString(k)],
                 clusters |-> [k \in DOMAIN points |-> points[k].xyz[3] \div 4],
                 outlier_threshold |-> threshold]

\* One call of filter_outliers.
FilterOutliersCall ==
    /\ fpc = "start"
    /\ fOut' = FilterOutliers(fIn)
    /\ fpc' = "returned"
    /\ UNCHANGED <<worldVars, vecVars, valVars, mgrVars, srvVars, patVars, genVars, fIn>>

FilSpec == FilInit /\ [][FilterOutliersCall]_vars

\* C29: filter_outliers keeps a point if and only if it is an outlier in
\* neither the 2-D nor the 3-D projection, and filters its six outputs with
\* one mask: they have one length, the number of kept points, and position j
\* of each holds the value of the j-th kept point of the input.
C29_OneMaskForAllOutputs ==
    fpc = "returned" =>
        LET kept == {k \in DOMAIN fIn.ids :
                        /\ ~IsOutlier(fIn.embeddings_2d, k, fIn.outlier_threshold)
                        /\ ~IsOutlier(fIn.embeddings_3d, k, fIn.outlier_threshold)}
            origin(j) == CHOOSE k \in kept : fIn.ids[k] = fOut.ids[j]
        IN  /\ \A field \in DOMAIN fOut : Len(fOut[field]) = Cardinality(kept)
            /\ {fOut.ids[j] : j \in DOMAIN fOut.ids} = {fIn.ids[k] : k \in kept}
            /\ \A j \in DOMAIN fOut.ids :
                  /\ \A field \in DOMAIN fOut : fOut[field][j] = fIn[field][origin(j)]
                  /\ \A j2 \in DOMAIN fOut.ids : j < j2 => origin(j) < origin(j2)

\* C29 witness: of three points one is an outlier in 2-D only and one in 3-D
\* only; the third is the one returned.
C29_Witness ==
    /\ fpc = "returned" /\ Len(fIn.ids) = 3 /\ fOut.ids = <<"id_3">>
    /\ IsOutlier(fIn.embeddings_2d, 1, fIn.outlier_threshold)
    /\ ~IsOutlier(fIn.embeddings_3d, 1, fIn.outlier_threshold)
    /\ IsOutlier(fIn.embeddings_3d, 2, fIn.outlier_threshold)
    /\ ~IsOutlier(fIn.embeddings_2d, 2, fIn.outlier_threshold)

----------------------------------------------------------------------------
(* The sample data generator: examples/sample_data_generator.py.           *)

\* Stand-ins for the texts random.choice draws.
GenTexts == {"first text chunk", "second text chunk"}

\* The line generate_sample_data writes for document i: the id is i padded
\* with zeros to six digits.
DocLine(n, text) ==
    LET zeros == IF n < 10 THEN "00000" ELSE IF n < 100 THEN "0000"
                 ELSE IF n < 1000 THEN "000" ELSE IF n < 10000 THEN "00"
                 ELSE IF n < 100000 THEN "0" ELSE ""
    IN  RecLine("doc_" \o zeros \o ToString(n), text,
                "sample_data/category_" \o ToString(n % 4) \o "/document_"
                    \o ToString(n) \o ".txt")

\* validate_jsonl(file_path): total_lines counts every line, valid_lines the
\* lines that parse and hold the three keys; an exception other than
\* JSONDecodeError (a missing file, "in" applied to a number) gives False.
ValidateJsonl(exists, ls) ==
    LET nonblank == {k \in DOMAIN ls : ~IsBlank(ls[k])}
        data(k) == JsonLoads(ls[k])
        In(key, v) == CASE v.t = "obj" -> Has(v, key)
                        [] v.t = "str" -> OccursIn(key, v.v)
                        [] v.t = "arr" -> StrV(key) \in Range(v.v)
                        [] OTHER -> FALSE
        raises == \E k \in nonblank : data(k).ok /\ data(k).val.t = "num"
        valid_lines == Cardinality({k \in nonblank :
                          /\ data(k).ok
                          /\ \A key \in Keys : In(key, data(k).val)})
        total_lines == Len(ls)
    IN  IF ~exists \/ raises THEN "False"
        ELSE IF valid_lines = total_lines THEN "True" ELSE "False"

\* The runs: the number of documents asked for, and the file found at the
\* path before the run, if any.
GenInit ==
    /\ store = <<>> /\ dbExists = FALSE
    /\ fileExists \in BOOLEAN
    /\ lines \in SeqsUpTo({BlankLine, Rec1, CutLine, NoIdLine, NumberLine}, MaxDocs)
    /\ fileExists \/ lines = <<>>
    /\ pc = "idle" /\ input_file = <<>> /\ model_name = <<>> /\ batch_size = 1
    /\ collection_name = <<>> /\ monitoring = FALSE /\ chunks = <<>>
    /\ batch_embeddings = <<>> /\ i = 0 /\ embedCalls = <<>> /\ addCalls = <<>>
    /\ failedIn = "" /\ store0 = <<>>
    /\ MonOff /\ SrvOff /\ ValOff /\ MgrOff /\ ToolsOff("generator")
    /\ gpc = "start" /\ num_docs \in 0..MaxDocs /\ gValid = ""

\* generate_sample_data(num_docs, output_file): the file is opened for
\* writing and one line is written per document.
GenerateSampleData ==
    /\ gpc = "start"
    /\ \E texts \in [1..num_docs -> GenTexts] :
          lines' = [k \in 1..num_docs |-> DocLine(k - 1, texts[k])]
    /\ fileExists' = TRUE
    /\ gpc' = "generated"
    /\ UNCHANGED <<store, dbExists, vecVars, valVars, mgrVars, srvVars,
                   patVars, filVars, num_docs, gValid>>

\* validate_jsonl on the file: after the generation (--validate), or called
\* on the file as found.
ValidateJsonlCall ==
    /\ gpc \in {"start", "generated"}
    /\ gValid' = ValidateJsonl(fileExists, lines)
    /\ gpc' = IF gpc = "generated" THEN "checked" ELSE "validated"
    /\ UNCHANGED <<worldVars, vecVars, valVars, mgrVars, srvVars,
                   patVars, filVars, num_docs>>

GenNext == GenerateSampleData \/ ValidateJsonlCall

GenSpec == GenInit /\ [][GenNext]_vars

\* C30: generate_sample_data(n) writes n lines, each an object with string
\* fields id, text and source and pairwise distinct ids; validate_jsonl
\* returns True on such a file, and in general returns True exactly when
\* every non-blank line parses and has the three fields, blank lines being
\* skipped without affecting the result.
C30_ValidateJsonlSkipsBlankLines ==
    /\ gpc \in {"generated", "checked"} =>
          /\ Len(lines) = num_docs
          /\ \A k \in DOMAIN lines :
                LET data == JsonLoads(lines[k])
                IN  /\ data.ok /\ IsObj(data.val)
                    /\ \A key \in Keys : Has(data.val, key) /\ IsStr(data.val.v[key])
                    /\ \A k2 \in DOMAIN lines :
                          k # k2 => data.val.v["id"] # JsonLoads(lines[k2]).val.v["id"]
    /\ gpc = "checked" => gValid = "True"
    /\ (gpc \in {"checked", "validated"} /\ fileExists) =>
          (gValid = "True" <=>
              \A k \in DOMAIN lines :
                  ~IsBlank(lines[k]) =>
                      LET data == JsonLoads(lines[k])
                      IN  /\ data.ok /\ IsObj(data.val)
                          /\ \A key \in Keys : Has(data.val, key))

\* C30, the part that holds: the generated file has num_docs lines, each an
\* object with the three string fields, the ids are pairwise distinct, and
\* validate_jsonl returns True on it.
C30_GeneratedFileValidates ==
    /\ gpc \in {"generated", "checked"} =>
          /\ Len(lines) = num_docs
          /\ \A k \in DOMAIN lines :
                LET data == JsonLoads(lines[k])
                IN  /\ data.ok /\ IsObj(data.val)
                    /\ \A key \in Keys : Has(data.val, key) /\ IsStr(data.val.v[key])
                    /\ data.val.v["id"] = StrV("doc_00000" \o ToString(k - 1))
    /\ gpc = "checked" => gValid = "True"

\* C30, the failing input reached: a file of one valid record and one blank
\* line, on which validate_jsonl returns False.
C30_BlankLineFails ==
    /\ gpc = "validated" /\ fileExists /\ lines = <<Rec1, BlankLine>>
    /\ gValid = "False"

====
